---- MODULE Spec2Model ----
(***************************************************************************)
(* Page-contract / routes-ssr execution model of the monorepo:             *)
(*   - route pattern matcher (matchPath, extractParams, parseQuery)        *)
(*   - SSR dispatchers (handleSsrRequestFetch, handleSsrRequest,           *)
(*     createHandleRequest, routes-ssr handleRequest, contract-page-2)     *)
(*   - SPA dispatchers (ReactRouterAdapter, handleSpaNavigation,           *)
(*     contract-page-2 AppComponent)                                       *)
(*   - document composition (generateRouteContextScript, html template)    *)
(* Strings are sequences of one-character strings, so that split, slice,   *)
(* decodeURIComponent, JSON.stringify and String.replace are computed.     *)
(***************************************************************************)
EXTENDS Integers, Sequences, FiniteSets, TLC

\* ------------------------------------------------------------------------
\* Bounds of the model
\* ------------------------------------------------------------------------
\* largest number of "/"-separated segments of a generated pattern or pathname
MaxSegs == 2

\* the most entries of window.history the user's navigations build up
MaxHistory == 2

\* the most promises an adapter has pending at a time
MaxInflight == 2

\* navigateTo calls whose fetch may still be pending when navigateTo is
\* called again
MaxPending == 1

\* the most entries of the query string of a generated url
MaxPairs == 2

\* the most characters of the message of a generated route context
MaxCtxLen == 2

\* the most routes of a generated declaration
MaxRoutes == 2

\* ------------------------------------------------------------------------
\* String primitives (JavaScript String / Array methods)
\* ------------------------------------------------------------------------
RECURSIVE split(_, _)
\* String.prototype.split(sep) with a one-character separator
split(s, sep) ==
  IF \A i \in 1..Len(s) : s[i] # sep
  THEN <<s>>
  ELSE LET i == CHOOSE k \in 1..Len(s) :
                   s[k] = sep /\ \A j \in 1..(k - 1) : s[j] # sep
       IN <<SubSeq(s, 1, i - 1)>> \o split(SubSeq(s, i + 1, Len(s)), sep)

\* Array.prototype.filter(Boolean) on an array of strings: drops the empty strings
filterBoolean(parts) == SelectSeq(parts, LAMBDA p : p # <<>>)

\* String.prototype.startsWith with a one-character prefix
startsWith(s, c) == Len(s) >= 1 /\ s[1] = c

\* String.prototype.slice(1)
slice1(s) == SubSeq(s, 2, Len(s))

RECURSIVE join(_, _)
\* Array.prototype.join(sep)
join(parts, sep) ==
  IF parts = <<>> THEN <<>>
  ELSE IF Len(parts) = 1 THEN parts[1]
  ELSE parts[1] \o sep \o join(Tail(parts), sep)

\* the value decodeURIComponent throws on a malformed escape sequence
URIError == <<"URIError">>

\* the percent escapes of the model's alphabet: %41 is "A", %2F is "/"
HexAscii == (<<"4", "1">> :> "A") @@ (<<"2", "F">> :> "/")

RECURSIVE decodeURIComponent(_)
\* decodeURIComponent: every %XX becomes its character, a "%" that is not
\* followed by two hex digits throws URIError
decodeURIComponent(s) ==
  IF s = <<>> THEN <<>>
  ELSE IF Head(s) = "%"
  THEN IF Len(s) >= 3 /\ <<s[2], s[3]>> \in DOMAIN HexAscii
       THEN LET rest == decodeURIComponent(SubSeq(s, 4, Len(s)))
            IN IF rest = URIError THEN URIError
               ELSE <<HexAscii[<<s[2], s[3]>>]>> \o rest
       ELSE URIError
  ELSE LET rest == decodeURIComponent(Tail(s))
       IN IF rest = URIError THEN URIError ELSE <<Head(s)>> \o rest

\* ------------------------------------------------------------------------
\* Route pattern matcher
\* ------------------------------------------------------------------------
\* the three outcomes of a match: null, a params object, a thrown URIError
MatchNull == [type |-> "null"]
MatchThrow == [type |-> "throw", error |-> URIError]
MatchParams(params) == [type |-> "params", params |-> params]

\* an object without keys
EmptyObject == << >>

\* obj[key] = value
setKey(obj, key, value) == (key :> value) @@ obj

RECURSIVE matchLoop(_, _, _, _)
\* the for loop of matchPath over the pattern's segments
matchLoop(patternParts, pathnameParts, i, params) ==
  IF i > Len(patternParts) THEN MatchParams(params)
  ELSE IF startsWith(patternParts[i], ":")
  THEN LET value == decodeURIComponent(pathnameParts[i])
       IN IF value = URIError THEN MatchThrow
          ELSE matchLoop(patternParts, pathnameParts, i + 1,
                         setKey(params, slice1(patternParts[i]), value))
  ELSE IF patternParts[i] # pathnameParts[i] THEN MatchNull
  ELSE matchLoop(patternParts, pathnameParts, i + 1, params)

\* matchPath with the length test of extractParams (a longer pathname passes)
matchPath_longerPasses(pattern, pathname) ==
  LET patternParts == filterBoolean(split(pattern, "/"))
      pathnameParts == filterBoolean(split(pathname, "/"))
  IN IF Len(pathnameParts) < Len(patternParts) THEN MatchNull
     ELSE matchLoop(patternParts, pathnameParts, 1, EmptyObject)

\* matchPath of the routes factory
matchPath(pattern, pathname) ==
  LET patternParts == filterBoolean(split(pattern, "/"))
      pathnameParts == filterBoolean(split(pathname, "/"))
  IN IF Len(patternParts) # Len(pathnameParts) THEN MatchNull
     ELSE matchLoop(patternParts, pathnameParts, 1, EmptyObject)

\* ------------------------------------------------------------------------
\* Routes registry (createRoutes)
\* ------------------------------------------------------------------------
\* the routes of the registry in declaration order; page says how the page
\* function was built: a plain PageFunction, definePage with the app context,
\* or definePage with withoutAppContext: true
RoutesConfig ==
  << [key |-> "home", path |-> <<"/">>, page |-> "plain"],
     [key |-> "profile", path |-> <<"/", "p", "/", ":", "i">>, page |-> "withAppContext"],
     [key |-> "item", path |-> <<"/", "a", "/", ":", "j">>, page |-> "withoutAppContext"] >>

RECURSIVE matchRouteFrom(_, _, _)
\* the for loop of matchRoute over routeMap.entries(), from entry k on
matchRouteFrom(routes, k, pathname) ==
  IF k > Len(routes) THEN MatchNull
  ELSE LET params == matchPath(routes[k].path, pathname)
       IN IF params = MatchThrow THEN MatchThrow
          ELSE IF params # MatchNull
          THEN [type |-> "match", route |-> routes[k], params |-> params.params,
                key |-> routes[k].key]
          ELSE matchRouteFrom(routes, k + 1, pathname)

\* matchRoute of the routes factory: the first route whose pattern matches
matchRoute(pathname) == matchRouteFrom(RoutesConfig, 1, pathname)

\* ------------------------------------------------------------------------
\* extractParams and parseQuery
\* ------------------------------------------------------------------------
RECURSIVE extractLoop(_, _, _, _)
\* the forEach of extractParams over the pattern's segments
extractLoop(patternParts, urlParts, index, params) ==
  IF index > Len(patternParts) THEN MatchParams(params)
  ELSE IF startsWith(patternParts[index], ":")
  THEN LET paramValue == decodeURIComponent(urlParts[index])
       IN IF paramValue = URIError THEN MatchThrow
          ELSE extractLoop(patternParts, urlParts, index + 1,
                           setKey(params, slice1(patternParts[index]), paramValue))
  ELSE extractLoop(patternParts, urlParts, index + 1, params)

\* extractParams(pattern, url): the params of url under pattern, {} when the
\* url has fewer segments than the pattern
extractParams(pat, url) ==
  LET urlPath == split(url, "?")[1]
      patternParts == filterBoolean(split(pat, "/"))
      urlParts == filterBoolean(split(urlPath, "/"))
  IN IF Len(urlParts) < Len(patternParts) THEN MatchParams(EmptyObject)
     ELSE extractLoop(patternParts, urlParts, 1, EmptyObject)

\* new URL(url).pathname: the path of a url without its query string
PathnameOf(u) == split(u, "?")[1]

\* ------------------------------------------------------------------------
\* Page functions and runPage
\* ------------------------------------------------------------------------
\* what a call of a function does: return (or resolve with) a value, throw
\* synchronously, or return a promise that rejects
Returns(v) == [kind |-> "returns", value |-> v]
Throws(e) == [kind |-> "throws", error |-> e]
Rejects(e) == [kind |-> "rejects", error |-> e]

\* an async function turns a synchronous throw of its body into a rejection
async(outcome) ==
  IF outcome.kind = "throws" THEN Rejects(outcome.error) ELSE outcome

\* the page function definePage builds around a handler: derive the app
\* context unless withoutAppContext, then call the handler with it.
\* Gives the calls made and the outcome of the page function.
definePage(withoutAppContext, appContext, handler) ==
  IF withoutAppContext
  THEN [calls |-> << [fn |-> "handler", rootContext |-> "none"] >>,
        outcome |-> async(handler)]
  ELSE IF appContext.kind = "returns"
  THEN [calls |-> << [fn |-> "appContext"],
                     [fn |-> "handler", rootContext |-> appContext.value] >>,
        outcome |-> async(handler)]
  ELSE [calls |-> << [fn |-> "appContext"] >>,
        outcome |-> Rejects(appContext.error)]

\* a call route.page(input) of a route of the registry
callPage(route, appContext, handler) ==
  IF route.page = "plain"
  THEN [calls |-> << [fn |-> "handler", rootContext |-> "none"] >>, outcome |-> handler]
  ELSE definePage(route.page = "withoutAppContext", appContext, handler)

\* runPage that awaits outside its try block: the failure of the page escapes
runPage_noCatch(pageOutcome) ==
  IF pageOutcome.kind = "returns" THEN Returns(pageOutcome.value)
  ELSE Rejects(pageOutcome.error)

\* runPage(page, input): the page's result, a thrown or rejected page gives
\* the error result with status 500
runPage(pageOutcome) ==
  IF pageOutcome.kind = "returns" THEN Returns(pageOutcome.value)
  ELSE Returns([type |-> "error", error |-> pageOutcome.error, status |-> 500])

\* result.status || d
statusOr(result, d) ==
  IF "status" \in DOMAIN result /\ result.status # 0 THEN result.status ELSE d

\* result.status ?? d
statusNullish(result, d) ==
  IF "status" \in DOMAIN result THEN result.status ELSE d

\* ------------------------------------------------------------------------
\* SSR dispatchers
\* ------------------------------------------------------------------------
\* a header that is not set
NoHeader == <<"(none)">>

\* no page result was obtained
NoResult == [type |-> "none"]

\* new Response(body, {status, headers: {Location}})
Response(status, location, body) ==
  [kind |-> "response", status |-> status, location |-> location, body |-> body]

\* the promise of the handler rejected: no response is produced
Rejected(e) == [kind |-> "rejected", error |-> e]

\* Response bodies are sequences of text pieces. new Response(null) and
\* res.end() without an argument send the empty body.
NoBody == << >>

\* the string a render hook of the adapter options returned
HookOutput(hook) == << hook >>

\* JSON.stringify({ ctx, seo }) of the ok branch without renderHtml
JsonBody == << "{\"ctx\":", "ctx", "}" >>

\* the built-in 404 document of handleSsrRequestFetch and createHandleRequest
Html404 == << "<html><body><h1>", "404 Not Found", "</h1></body></html>" >>

\* the built-in error document of handleSsrRequestFetch
ErrorHtml(result) ==
  << "<html><body><h1>", "Error ", ToString(statusOr(result, 500)), "</h1><p>",
     result.error, "</p></body></html>" >>

\* the built-in bodies of handleSsrRequest (Node)
Text404 == << "404 Not Found" >>
ErrorText(result) == << "Error: ", result.error >>

\* the switch of handleSsrRequestFetch with 301 as the default redirect status
fetchResponse_redirect301(result, options) ==
  IF result.type = "redirect"
  THEN Response(statusOr(result, 301), result.to, NoBody)
  ELSE IF result.type = "not-found"
  THEN Response(statusOr(result, 404), NoHeader,
                IF options.renderHtml THEN HookOutput("renderHtml") ELSE Html404)
  ELSE IF result.type = "error"
  THEN Response(statusOr(result, 500), NoHeader,
                IF options.renderError THEN HookOutput("renderError") ELSE ErrorHtml(result))
  ELSE Response(statusOr(result, 200), NoHeader,
                IF options.renderHtml THEN HookOutput("renderHtml") ELSE JsonBody)

\* the switch of handleSsrRequestFetch over result.type
fetchResponse(result, options) ==
  IF result.type = "redirect"
  THEN Response(statusOr(result, 302), result.to, NoBody)
  ELSE IF result.type = "not-found"
  THEN Response(statusOr(result, 404), NoHeader,
                IF options.renderHtml THEN HookOutput("renderHtml") ELSE Html404)
  ELSE IF result.type = "error"
  THEN Response(statusOr(result, 500), NoHeader,
                IF options.renderError THEN HookOutput("renderError") ELSE ErrorHtml(result))
  ELSE Response(statusOr(result, 200), NoHeader,
                IF options.renderHtml THEN HookOutput("renderHtml") ELSE JsonBody)

\* handleSsrRequestFetch(route, request, options): build the input, run the
\* page, turn the result into a Response
handleSsrRequestFetch(route, url, options, appContext, handler) ==
  LET pathnameOfUrl == split(url, "?")[1]
      params == extractParams(route.path, pathnameOfUrl)
  IN IF params = MatchThrow
     THEN [calls |-> << >>, result |-> NoResult, response |-> Rejected(URIError)]
     ELSE LET page == callPage(route, appContext, handler)
              ran == runPage(page.outcome)
          IN IF ran.kind = "rejects"
             THEN [calls |-> page.calls, result |-> NoResult,
                   response |-> Rejected(ran.error)]
             ELSE [calls |-> page.calls, result |-> ran.value,
                   response |-> fetchResponse(ran.value, options)]

\* the switch of handleSsrRequest (Node) that ends the 404 response without
\* a body when render404 is not supplied
nodeResponse_bare404(result, options) ==
  IF result.type = "redirect"
  THEN Response(statusNullish(result, 302), result.to, NoBody)
  ELSE IF result.type = "not-found"
  THEN Response(404, NoHeader, IF options.render404 THEN HookOutput("render404") ELSE NoBody)
  ELSE IF result.type = "error"
  THEN Response(statusNullish(result, 500), NoHeader, ErrorText(result))
  ELSE Response(statusNullish(result, 200), NoHeader,
                IF options.renderHtml THEN HookOutput("renderHtml") ELSE JsonBody)

\* the switch of handleSsrRequest (Node) over result.type
nodeResponse(result, options) ==
  IF result.type = "redirect"
  THEN Response(statusNullish(result, 302), result.to, NoBody)
  ELSE IF result.type = "not-found"
  THEN Response(404, NoHeader, IF options.render404 THEN HookOutput("render404") ELSE Text404)
  ELSE IF result.type = "error"
  THEN Response(statusNullish(result, 500), NoHeader, ErrorText(result))
  ELSE Response(statusNullish(result, 200), NoHeader,
                IF options.renderHtml THEN HookOutput("renderHtml") ELSE JsonBody)

\* handleSsrRequest(route, req, res, options)
handleSsrRequest(route, url, options, appContext, handler) ==
  LET params == extractParams(route.path, url)
  IN IF params = MatchThrow
     THEN [calls |-> << >>, result |-> NoResult, response |-> Rejected(URIError)]
     ELSE LET page == callPage(route, appContext, handler)
              ran == runPage(page.outcome)
          IN IF ran.kind = "rejects"
             THEN [calls |-> page.calls, result |-> NoResult,
                   response |-> Rejected(ran.error)]
             ELSE [calls |-> page.calls, result |-> ran.value,
                   response |-> nodeResponse(ran.value, options)]

\* the handler createHandleRequest returns: match the pathname, answer 404
\* without a match, else delegate to handleSsrRequestFetch. withHooks is the
\* variant that forwards render404 and renderError to the adapter.
createHandleRequest(withHooks, url, options, appContext, handler) ==
  LET pathnameOfUrl == split(url, "?")[1]
      match == matchRoute(pathnameOfUrl)
  IN IF match = MatchThrow
     THEN [calls |-> << >>, result |-> NoResult, response |-> Rejected(URIError)]
     ELSE IF match = MatchNull
     THEN [calls |-> << >>, result |-> NoResult,
           response |-> Response(404, NoHeader,
                          IF withHooks /\ options.render404
                          THEN HookOutput("render404") ELSE Html404)]
     ELSE handleSsrRequestFetch(match.route, url,
            [renderHtml |-> TRUE,
             render404 |-> withHooks /\ options.render404,
             renderError |-> withHooks /\ options.renderError],
            appContext, handler)

\* routes._match of routes-ssr: the first route whose pattern matches
routesSsrMatch(pathname) == matchRoute(pathname)

\* the switch of the routes-ssr handleRequest over pageResult.type
routesSsrResponse(pageResult) ==
  IF pageResult.type = "redirect"
  THEN Response(statusOr(pageResult, 302), pageResult.to, NoBody)
  ELSE IF pageResult.type = "notFound" THEN Response(404, NoHeader, << "Not Found" >>)
  ELSE IF pageResult.type = "gone" THEN Response(410, NoHeader, << "Gone" >>)
  ELSE IF pageResult.type = "forbidden" THEN Response(403, NoHeader, << "Forbidden" >>)
  ELSE IF pageResult.type = "unauthorized" THEN Response(401, NoHeader, << "Unauthorized" >>)
  ELSE IF pageResult.type = "unavailableForLegalReasons"
  THEN Response(451, NoHeader, << "Unavailable For Legal Reasons" >>)
  ELSE Response(200, NoHeader, << "document" >>)

\* handleRequest of the routes-ssr server entry: match, build the root
\* context inline, call the page (no try/catch), switch on the result
routesSsrHandleRequest(url, page) ==
  LET pathnameOfUrl == split(url, "?")[1]
      match == routesSsrMatch(pathnameOfUrl)
  IN IF match = MatchThrow
     THEN [calls |-> << >>, result |-> NoResult, response |-> Rejected(URIError)]
     ELSE IF match = MatchNull
     THEN [calls |-> << >>, result |-> NoResult,
           response |-> Response(404, NoHeader, << "Not Found" >>)]
     ELSE LET calls == << [fn |-> "handler", rootContext |-> "inline"] >>
          IN IF page.kind = "returns"
             THEN [calls |-> calls, result |-> page.value,
                   response |-> routesSsrResponse(page.value)]
             ELSE [calls |-> calls, result |-> NoResult,
                   response |-> Rejected(page.error)]

\* ------------------------------------------------------------------------
\* contract-page-2: registry and server
\* ------------------------------------------------------------------------
\* the pages of the contract in definePage order
Cp2Pages ==
  << [path |-> <<"/">>], [path |-> <<"/", "p", "/", ":", "i">>] >>

\* matchPath of contract-page-2
matchPathCp2(pathPattern, url) ==
  LET pathSegments == filterBoolean(split(pathPattern, "/"))
      urlSegments == filterBoolean(split(url, "/"))
  IN IF Len(pathSegments) # Len(urlSegments) THEN MatchNull
     ELSE matchLoop(pathSegments, urlSegments, 1, EmptyObject)

RECURSIVE matchRouteCp2From(_, _)
\* the for loop of contract.matchRoute over pages, from page k on
matchRouteCp2From(k, url) ==
  IF k > Len(Cp2Pages) THEN [type |-> "match", page |-> 0, params |-> EmptyObject]
  ELSE LET params == matchPathCp2(Cp2Pages[k].path, url)
       IN IF params = MatchThrow THEN MatchThrow
          ELSE IF params # MatchNull
          THEN [type |-> "match", page |-> k, params |-> params.params]
          ELSE matchRouteCp2From(k + 1, url)

\* contract.matchRoute(url): the first page whose path matches; page 0 is
\* the null page of a url no page matches
matchRouteCp2(url) == matchRouteCp2From(1, url)

\* String.prototype.replace(pattern, '') with a string pattern: the first
\* occurrence of pattern is removed
RECURSIVE removeFirst(_, _)
removeFirst(s, pat) ==
  IF Len(s) < Len(pat) THEN s
  ELSE IF SubSeq(s, 1, Len(pat)) = pat THEN SubSeq(s, Len(pat) + 1, Len(s))
  ELSE <<Head(s)>> \o removeFirst(Tail(s), pat)

\* base option of runServer (default '/')
Base == <<"/">>

\* the SSR endpoint app.get('*') of contract-page-2. hasAppContext says
\* whether the contract was initialised with an appContext provider.
cp2SsrEndpoint(originalUrl, hasAppContext, appContext, page) ==
  LET stripped == removeFirst(originalUrl, Base)
      url == IF stripped # << >> THEN stripped ELSE originalUrl
      match == matchRouteCp2(url)
      provider == IF hasAppContext THEN << [fn |-> "appContext"] >> ELSE << >>
      caught(calls, e) ==
        [calls |-> calls, result |-> NoResult, response |-> Response(500, NoHeader, << e >>)]
  IN IF match = MatchThrow THEN caught(<< >>, "stack")
     ELSE IF match.page = 0
     THEN IF hasAppContext /\ appContext.kind # "returns"
          THEN caught(provider, "stack")
          ELSE [calls |-> provider, result |-> NoResult,
                response |-> Response(404, NoHeader, << "document" >>)]
     ELSE IF hasAppContext /\ appContext.kind # "returns"
     THEN caught(provider, "stack")
     ELSE LET calls == provider \o
                 << [fn |-> "handler",
                     rootContext |-> IF hasAppContext THEN appContext.value ELSE "none"] >>
          IN IF page.kind # "returns" THEN caught(calls, "stack")
             ELSE IF page.value.type = "redirect"
             THEN [calls |-> calls, result |-> page.value,
                   response |-> Response(statusOr(page.value, 302), page.value.to, << "Redirecting to ", "to" >>)]
             ELSE [calls |-> calls, result |-> page.value,
                   response |-> Response(IF page.value.type = "not-found" THEN 404 ELSE 200,
                                         NoHeader, << "document" >>)]

\* ------------------------------------------------------------------------
\* SPA dispatcher of page-contract (handleSpaNavigation)
\* ------------------------------------------------------------------------
\* the value an async function resolved with
Returned(ctx, resultType) == [kind |-> "returned", ctx |-> ctx, resultType |-> resultType]

\* a call options.navigate(to)
Navigate(to) == [fn |-> "navigate", to |-> to]

\* a call updateSeoMetadata(seo), which writes document.title and meta tags
UpdateSeo(result) ==
  IF "seo" \in DOMAIN result
  THEN << [fn |-> "updateSeoMetadata", seo |-> result.seo] >> ELSE << >>

\* the paths the SPA dispatcher navigates to on its own
ErrorPath == <<"/", "e", "r", "r", "o", "r">>
Default404Path == <<"/", "4", "0", "4">>

\* options.notFoundPath || '/404'
notFoundPathOr(options) ==
  IF "notFoundPath" \in DOMAIN options /\ options.notFoundPath # << >>
  THEN options.notFoundPath ELSE Default404Path

\* result.ctx ?? { notFound: true }
notFoundCtx(result) == IF "ctx" \in DOMAIN result THEN result.ctx ELSE "{notFound:true}"

\* the switch of handleSpaNavigation over result.type: the side effects and
\* the value returned. legacy is the first variant of the adapter, which
\* navigates on not-found and returns the bare context.
spaEffects(legacy, result, options) ==
  IF result.type = "redirect"
  THEN [effects |-> << Navigate(result.to) >>, response |-> Returned("null", "redirect")]
  ELSE IF result.type = "not-found"
  THEN IF legacy
       THEN [effects |-> << Navigate(notFoundPathOr(options)) >>,
             response |-> Returned("null", "not-found")]
       ELSE [effects |-> UpdateSeo(result),
             response |-> Returned(notFoundCtx(result), "not-found")]
  ELSE IF result.type = "error"
  THEN [effects |-> << Navigate(ErrorPath) >>, response |-> Returned("null", "error")]
  ELSE [effects |-> UpdateSeo(result), response |-> Returned(result.ctx, "ok")]

\* handleSpaNavigation(route, input, options)
handleSpaNavigation(legacy, route, options, appContext, handler) ==
  LET page == callPage(route, appContext, handler)
      ran == runPage(page.outcome)
  IN IF ran.kind = "rejects"
     THEN [calls |-> page.calls, result |-> NoResult, effects |-> << >>,
           response |-> Rejected(ran.error)]
     ELSE [calls |-> page.calls, result |-> ran.value,
           effects |-> spaEffects(legacy, ran.value, options).effects,
           response |-> spaEffects(legacy, ran.value, options).response]

\* what routes.handleSpaNavigation returns for a pathname no route matches
NoMatchReturned == Returned("null", "none")

\* routes.handleSpaNavigation that sends an unmatched pathname to the
\* not-found path
handleSpaNavigationFunction_navigates(pathnameArg, options, appContext, handler) ==
  LET match == matchRoute(pathnameArg)
  IN IF match = MatchThrow
     THEN [calls |-> << >>, result |-> NoResult, effects |-> << >>,
           response |-> Rejected(URIError)]
     ELSE IF match = MatchNull
     THEN [calls |-> << >>, result |-> NoResult,
           effects |-> << Navigate(notFoundPathOr(options)) >>, response |-> NoMatchReturned]
     ELSE handleSpaNavigation(FALSE, match.route, options, appContext, handler)

\* routes.handleSpaNavigation(pathname, inputOptions, spaOptions): match the
\* route, then the second variant of handleSpaNavigation with the options
\* and the notFoundPath of the routes config
handleSpaNavigationFunction(pathnameArg, options, appContext, handler) ==
  LET match == matchRoute(pathnameArg)
  IN IF match = MatchThrow
     THEN [calls |-> << >>, result |-> NoResult, effects |-> << >>,
           response |-> Rejected(URIError)]
     ELSE IF match = MatchNull
     THEN [calls |-> << >>, result |-> NoResult, effects |-> << >>,
           response |-> NoMatchReturned]
     ELSE handleSpaNavigation(FALSE, match.route, options, appContext, handler)

\* ------------------------------------------------------------------------
\* Inputs of the matcher
\* ------------------------------------------------------------------------
\* segments a route pattern is built from
PatternSegs == { <<"a">>, <<"b">>, <<":", "i">>, <<":", "j">>, <<":", "j", "?">> }

\* segments a request pathname is built from ("" arises from "//" and a trailing "/")
PathSegs == { <<"a">>, <<"b">>, <<"x">>, <<"%", "4", "1">>, <<"%">>, << >> }

\* sequences of at most n elements of S
SeqsUpTo(S, n) == UNION { [1..k -> S] : k \in 0..n }

\* the string "/seg1/seg2/..." ("/" for no segment)
PathOf(segs) == <<"/">> \o join(segs, <<"/">>)

\* ------------------------------------------------------------------------
\* Inputs of the dispatchers
\* ------------------------------------------------------------------------
\* request urls: matched by a route, matched with an escape, unmatched
DispatchUrls ==
  { <<"/">>, <<"/", "p", "/", "x">>, <<"/", "p", "/", "%", "4", "1">>,
    <<"/", "a", "/", "b">>, <<"/", "q">>, <<"/", "p", "/", "x", "/", "y">> }

\* redirect targets
Targets == { <<"/", "l">> }

\* PageResult of page-contract (types.ts): ok, redirect, not-found, error,
\* each with or without its optional status
PageResults ==
  { [type |-> "ok", ctx |-> "ctx"], [type |-> "ok", ctx |-> "ctx", status |-> 201],
    [type |-> "ok", ctx |-> "ctx", seo |-> [title |-> "T"]],
    [type |-> "not-found"], [type |-> "not-found", status |-> 410],
    [type |-> "not-found", ctx |-> "fallback"],
    [type |-> "error", error |-> "err"], [type |-> "error", error |-> "err", status |-> 503] }
  \cup { [type |-> "redirect", to |-> t] : t \in Targets }
  \cup { [type |-> "redirect", to |-> t, status |-> st] :
           t \in Targets, st \in {301, 302, 307, 308} }

\* PageResult of routes-ssr
RoutesSsrResults ==
  { [type |-> "ok", routeContext |-> "ctx"], [type |-> "notFound"],
    [type |-> "unauthorized"], [type |-> "forbidden"], [type |-> "gone"],
    [type |-> "unavailableForLegalReasons"] }
  \cup { [type |-> "redirect", to |-> t] : t \in Targets }
  \cup { [type |-> "redirect", to |-> t, status |-> st] :
           t \in Targets, st \in {301, 302, 307, 308} }

\* PageResult of contract-page-2; the status of its redirect is any number
Cp2Results ==
  { [type |-> "ok", data |-> "ctx"], [type |-> "not-found"] }
  \cup { [type |-> "redirect", to |-> t] : t \in Targets }
  \cup { [type |-> "redirect", to |-> t, status |-> st] :
           t \in Targets, st \in {301, 307, 303} }

\* what a page function (handler) can do with one of the results
Outcomes(results) ==
  { Returns(r) : r \in results } \cup { Throws("boom"), Rejects("boom") }

\* what the app-context provider can do
AppContextOutcomes == { Returns("appCtx"), Throws("ctxFail"), Rejects("ctxFail") }

\* which render hooks the adapter options carry
RenderOptions == [renderHtml : BOOLEAN, render404 : BOOLEAN, renderError : BOOLEAN]

\* SpaAdapterOptions: navigate, with or without notFoundPath
SpaOptions == { [navigate |-> "fn"], [navigate |-> "fn", notFoundPath |-> <<"/", "n">>] }

\* ------------------------------------------------------------------------
\* SPA: history, page outcomes by path, /api/page
\* ------------------------------------------------------------------------
\* window.history as its entries and the index of the current entry
\* history.pushState: entries after the current one are dropped
pushState(h, to) == [entries |-> SubSeq(h.entries, 1, h.at) \o <<to>>, at |-> h.at + 1]

\* history.replaceState that adds an entry instead of replacing the current one
replaceState_pushes(h, to) == pushState(h, to)

\* history.replaceState: the current entry is overwritten
replaceState(h, to) == [h EXCEPT !.entries[h.at] = to]

\* history.back
back(h) == [h EXCEPT !.at = h.at - 1]

\* normalizeUrl of navigateTo, new URL(u, origin).pathname: u without its
\* query string and hash
normalizeUrl(u) == split(split(u, "?")[1], "#")[1]

\* window.location.pathname: the current entry without query string and hash
locationPathname(h) == normalizeUrl(h.entries[h.at])

\* navigate(to, {replace}) of react-router
navigate(h, to, replace) == IF replace THEN replaceState(h, to) ELSE pushState(h, to)

\* the context a handler computes from the input of a path
ctxOf(path) ==
  CASE path = <<"/">> -> "ctx(/)"
    [] path = <<"/", "p", "/", "x">> -> "ctx(/p/x)"
    [] OTHER -> "ctx(other)"

\* the app context the provider derives for a url
appCtxOf(path) ==
  CASE path = <<"/">> -> "appCtx(/)"
    [] path = <<"/", "p", "/", "x">> -> "appCtx(/p/x)"
    [] OTHER -> "appCtx(other)"

\* the value setContext exposes: Exposed(c, t) is {ctx: c, pageInput: {resultType: t}},
\* Exposed(c, "none") the bare context c, Exposed("null", "none") is null
Exposed(ctx, resultType) == [ctx |-> ctx, resultType |-> resultType]
NullContext == Exposed("null", "none")

\* pageContext null and the undefined window globals of contract-page-2
NullData == [type |-> "null"]
UndefinedData == [type |-> "undefined"]
Undefined == "undefined"

\* paths the user navigates to: two pages (paths no route matches are
\* reached through redirects)
NavPaths == { <<"/">>, <<"/", "p", "/", "x">> }

\* urls given to navigateTo: the two pages, a second url of the second
\* page and a url of each page with a query string
Cp2NavUrls ==
  NavPaths \cup { <<"/", "p", "/", "y">>, <<"/", "p", "/", "x", "?", "q">>,
                  <<"/", "?", "q">> }

\* redirect targets of the contract-page-2 pages: a path outside NavPaths and a page
SpaTargets == { <<"/", "l">>, <<"/", "p", "/", "x">> }

\* the paths the routes-ssr adapter navigates to for a result type
StatusPath(type) ==
  CASE type = "notFound" -> <<"/", "4", "0", "4">>
    [] type = "gone" -> <<"/", "4", "1", "0">>
    [] type = "forbidden" -> <<"/", "4", "0", "3">>
    [] type = "unauthorized" -> <<"/", "4", "0", "1">>
    [] type = "unavailableForLegalReasons" -> <<"/", "4", "5", "1">>

\* results of a page-contract handler called for path
SpaPageResults(path) ==
  { [type |-> "ok", ctx |-> ctxOf(path)], [type |-> "not-found"],
    [type |-> "not-found", ctx |-> "fallback"] }
  \cup { [type |-> "redirect", to |-> t] : t \in Targets }

\* results of a routes-ssr page called for path
SpaRoutesSsrResults(path) ==
  { [type |-> "ok", routeContext |-> ctxOf(path)], [type |-> "notFound"],
    [type |-> "forbidden"] }
  \cup { [type |-> "redirect", to |-> t] : t \in Targets }

\* results of a contract-page-2 page called for url
SpaCp2Results(url) ==
  { [type |-> "ok", data |-> ctxOf(url)], [type |-> "not-found"] }
  \cup { [type |-> "redirect", to |-> t] : t \in SpaTargets }

\* the page of contract-page-2 matching url (0: none)
cp2PageOf(url) ==
  LET match == matchRouteCp2(url)
  IN IF match = MatchThrow THEN 0 ELSE match.page

\* the /api/page endpoint of contract-page-2: the JSON response, or the
\* rejection of the route handler (no try/catch) that leaves the request
\* unanswered
apiPageMatched(match, hasAppContext, appContext, page) ==
  IF match = MatchThrow THEN Rejected(URIError)
  ELSE IF match.page = 0 THEN Response(404, NoHeader, [type |-> "not-found"])
  ELSE IF hasAppContext /\ appContext.kind # "returns" THEN Rejected(appContext.error)
  ELSE IF page.kind # "returns" THEN Rejected(page.error)
  ELSE IF page.value.type = "redirect"
  THEN Response(statusOr(page.value, 302), NoHeader, page.value)
  ELSE IF page.value.type = "not-found" THEN Response(404, NoHeader, page.value)
  ELSE Response(200, NoHeader, page.value)

\* app.get('/api/page') for the request url
apiPage(url, hasAppContext, appContext, page) ==
  apiPageMatched(matchRouteCp2(url), hasAppContext, appContext, page)

\* the /api/page endpoint as a dispatcher: the calls it makes, the page
\* result and the response with its JSON body as text, or the rejection of
\* the route handler
cp2ApiPage(url, hasAppContext, appContext, page) ==
  IF url = << >>
  THEN [calls |-> << >>, result |-> NoResult,
        response |-> Response(400, NoHeader, << "json", "url required" >>)]
  ELSE
  LET match == matchRouteCp2(url)
      r == apiPageMatched(match, hasAppContext, appContext, page)
      provider == IF hasAppContext THEN << [fn |-> "appContext"] >> ELSE << >>
      handler == << [fn |-> "handler",
                     rootContext |-> IF hasAppContext THEN appContext.value ELSE "none"] >>
      calls == IF match = MatchThrow \/ match.page = 0 THEN << >>
               ELSE IF hasAppContext /\ appContext.kind # "returns" THEN provider
               ELSE provider \o handler
  IN [calls |-> calls,
      result |-> IF r.kind = "response" /\ match.page # 0 THEN page.value ELSE NoResult,
      response |-> IF r.kind = "response"
                   THEN Response(r.status, r.location, << "json", r.body.type >>)
                   ELSE r]

\* what fetch('/api/page?url=...') does: resolve with the response, reject
\* on a network failure, or stay pending when the server never answers
FetchOutcomes(url) ==
  LET match == matchRouteCp2(url)
  IN { LET r == apiPageMatched(match, TRUE, a, p)
       IN IF r.kind = "rejected" THEN [kind |-> "hangs"] ELSE Returns(r) :
         a \in AppContextOutcomes, p \in Outcomes(SpaCp2Results(url)) }
     \cup { Rejects("network") }

\* Map.prototype.set and Map.prototype.delete on navigationCache
cacheSet(cache, url, data) == { e \in cache : e.url # url } \cup { [url |-> url, data |-> data] }
cacheDelete(cache, url) == { e \in cache : e.url # url }

\* the sequence s without its element at index i
RemoveAt(s, i) == SubSeq(s, 1, i - 1) \o SubSeq(s, i + 1, Len(s))

\* ------------------------------------------------------------------------
\* PageInput of the SSR and of the SPA dispatcher
\* ------------------------------------------------------------------------
\* a value of the query object: the string s, or an array of strings
StringValue(s) == [array |-> FALSE, items |-> <<s>>]
ArrayValue(items) == [array |-> TRUE, items |-> items]

\* if (query[key]): an array is truthy, a string is unless it is empty
truthy(v) == v.array \/ v.items[1] # << >>

\* one "name=value" part of a query string as the entry [name, value]
\* (the query strings of the model carry no "+" and no percent escape)
entryOf(part) ==
  LET kv == split(part, "=")
  IN [key |-> kv[1], value |-> join(Tail(kv), <<"=">>)]

\* new URLSearchParams(init).entries(): a leading "?" is dropped, the rest
\* is split at "&", empty parts are skipped
URLSearchParams(init) ==
  LET queryString == IF startsWith(init, "?") THEN slice1(init) ELSE init
      parts == filterBoolean(split(queryString, "&"))
  IN [i \in 1..Len(parts) |-> entryOf(parts[i])]

RECURSIVE parseQueryLoop(_, _, _)
\* the for loop of parseQuery over params.entries(), from entry i on
parseQueryLoop(entries, i, query) ==
  IF i > Len(entries) THEN query
  ELSE LET key == entries[i].key
           value == entries[i].value
       IN IF key \in DOMAIN query /\ truthy(query[key])
          THEN parseQueryLoop(entries, i + 1,
                              setKey(query, key, ArrayValue(Append(query[key].items, value))))
          ELSE parseQueryLoop(entries, i + 1, setKey(query, key, StringValue(value)))

\* parseQuery(url): the text between the first and the second "?" of url as
\* an object; a key that occurs again turns its value into an array
parseQuery(u) ==
  LET parts == split(u, "?")
  IN IF Len(parts) < 2 \/ parts[2] = << >> THEN EmptyObject
     ELSE parseQueryLoop(URLSearchParams(parts[2]), 1, EmptyObject)

RECURSIVE fromEntriesLoop(_, _, _)
\* Object.fromEntries(entries): a key that occurs again overwrites its value
fromEntriesLoop(entries, i, obj) ==
  IF i > Len(entries) THEN obj
  ELSE fromEntriesLoop(entries, i + 1,
                       setKey(obj, entries[i].key, StringValue(entries[i].value)))

fromEntries(entries) == fromEntriesLoop(entries, 1, EmptyObject)

\* what building a PageInput ends in: the input, no input because no route
\* matches, or the URIError of the matcher
NoInput == [state |-> "pending"]
NoRoute == [state |-> "noRoute"]
InputThrows == [state |-> "throws"]
PageInput(params, query) == [state |-> "built", params |-> params, query |-> query]

\* the PageInput handleSsrRequestFetch builds for the route that the handler
\* of createHandleRequest matched for the request
ssrPageInput(requestUrl) ==
  LET urlPathname == PathnameOf(requestUrl)
      match == matchRoute(urlPathname)
  IN IF match = MatchThrow THEN InputThrows
     ELSE IF match = MatchNull THEN NoRoute
     ELSE LET params == extractParams(match.route.path, urlPathname)
          IN IF params = MatchThrow THEN InputThrows
             ELSE PageInput(params.params, parseQuery(requestUrl))

\* the searchParams option a caller of routes.handleSpaNavigation derives
\* from location.search: a URLSearchParams, the search string without its
\* "?", or location.search itself
SearchParamsForms == { "URLSearchParams", "string", "search" }

\* the query object routes.handleSpaNavigation prepares from searchParams
spaQuery(search, form) ==
  IF form = "URLSearchParams" THEN fromEntries(URLSearchParams(search))
  ELSE LET searchParams == IF form = "string" /\ startsWith(search, "?")
                           THEN slice1(search) ELSE search
       IN IF searchParams = << >> THEN EmptyObject
          ELSE parseQuery(<<"?">> \o searchParams)

\* the PageInput routes.handleSpaNavigation builds for a location
spaPageInput(locPathname, search, form) ==
  LET match == matchRoute(locPathname)
  IN IF match = MatchThrow THEN InputThrows
     ELSE IF match = MatchNull THEN NoRoute
     ELSE PageInput(match.params, spaQuery(search, form))

RECURSIVE searchOf(_)
\* the query string "k=v&k=v" of a list of entries
searchOf(entries) ==
  IF entries = << >> THEN << >>
  ELSE entries[1].key \o <<"=">> \o entries[1].value
       \o (IF Len(entries) = 1 THEN << >> ELSE <<"&">> \o searchOf(Tail(entries)))

\* keys and values of the query entries of a generated url
QueryKeys == { <<"a">>, <<"b">> }
QueryValues == { << >>, <<"1">>, <<"2">> }

\* location.search of the generated urls: "" or "?" and up to MaxPairs entries
Searches ==
  { IF entries = << >> THEN << >> ELSE <<"?">> \o searchOf(entries) :
      entries \in SeqsUpTo([key : QueryKeys, value : QueryValues], MaxPairs) }

\* pathnames of the generated urls: the three kinds of route and no route
InputPaths ==
  { <<"/">>, <<"/", "p", "/", "x">>, <<"/", "p", "/", "%", "4", "1">>, <<"/", "q">> }

\* the urls a first load and a navigation are compared on
InputUrls == [pathname : InputPaths, search : Searches]

\* ------------------------------------------------------------------------
\* Document composition
\* ------------------------------------------------------------------------
\* A document is a sequence of pieces: text that comes from data is one
\* character per piece, the fixed text of the templates is a tag, a
\* placeholder or a statement prefix per piece (white space is left out).

\* the fixed pieces that begin with "<"
Markup ==
  { "<!DOCTYPE html>", "<html lang=\"en\">", "<head>", "<meta charset=\"UTF-8\">",
    "<meta name=\"viewport\" content=\"width=device-width, initial-scale=1.0\">",
    "<link rel=\"stylesheet\" href=\"/assets/index.css\">",
    "<title>", "</title>", "<title>App</title>", "</head>", "<body>",
    "<div id=\"root\">", "</div>", "<h1>", "</h1>", "<script>", "</script>",
    "<script type=\"module\" src=\"/client.js\">", "</body>", "</html>" }

RECURSIVE jsonEscape(_)
\* the characters of a string as JSON.stringify writes them between quotes
jsonEscape(s) ==
  IF s = << >> THEN << >>
  ELSE (IF Head(s) \in { "\"", "\\" } THEN <<"\\", Head(s)>> ELSE <<Head(s)>>)
       \o jsonEscape(Tail(s))

\* JSON.stringify of a string
jsonString(s) == <<"\"">> \o jsonEscape(s) \o <<"\"">>

RECURSIVE jsonMembers(_)
\* the members of an object, given as <<key, serialized value>> pairs
jsonMembers(members) ==
  IF members = << >> THEN << >>
  ELSE jsonString(members[1][1]) \o <<":">> \o members[1][2]
       \o (IF Len(members) = 1 THEN << >> ELSE <<",">> \o jsonMembers(Tail(members)))

\* JSON.stringify of an object
jsonObject(members) == <<"{">> \o jsonMembers(members) \o <<"}">>

\* JSON.stringify of a route context {message}
stringifyCtx(ctx) ==
  jsonObject(<< << <<"m", "e", "s", "s", "a", "g", "e">>, jsonString(ctx.message) >> >>)

\* JSON.stringify of the PageViewInput of an ok result (its resultType; the
\* members taken from the request are serialized and escaped the same way)
stringifyPageInput ==
  jsonObject(<< << <<"r", "e", "s", "u", "l", "t", "T", "y", "p", "e">>,
                   jsonString(<<"o", "k">>) >> >>)

\* JSON.stringify of the contract-page-2 result {type: 'ok', data}
stringifyResult(ctx) ==
  jsonObject(<< << <<"t", "y", "p", "e">>, jsonString(<<"o", "k">>) >>,
                << <<"d", "a", "t", "a">>, stringifyCtx(ctx) >> >>)

RECURSIVE escapeLt(_)
\* .replace(/</g, '\\u003c')
escapeLt(s) ==
  IF s = << >> THEN << >>
  ELSE (IF Head(s) = "<" THEN <<"\\", "u", "0", "0", "3", "c">> ELSE <<Head(s)>>)
       \o escapeLt(Tail(s))

\* the entities of escapeHtml
HtmlEntity ==
  ("&" :> "&amp;") @@ ("<" :> "&lt;") @@ (">" :> "&gt;") @@ ("\"" :> "&quot;")
  @@ ("'" :> "&#039;")

\* escapeHtml(text)
escapeHtml(text) ==
  [i \in 1..Len(text) |-> IF text[i] \in DOMAIN HtmlEntity THEN HtmlEntity[text[i]] ELSE text[i]]

\* no seo in the result
NoSeo == [defined |-> FALSE]

\* generateMetaTags(seo) for a seo descriptor with a title
generateMetaTags(seo) ==
  IF seo.title # << >> THEN <<"<title>">> \o escapeHtml(seo.title) \o <<"</title>">>
  ELSE << >>

\* generateRouteContextScript(context, pageInput)
generateRouteContextScript(ctx, withPageInput) ==
  <<"<script>", "window.__ROUTE_CONTEXT__ = ">> \o escapeLt(stringifyCtx(ctx)) \o <<";">>
  \o (IF withPageInput
      THEN <<"window.__PAGE_INPUT__ = ">> \o escapeLt(stringifyPageInput) \o <<";">>
      ELSE << >>)
  \o <<"</script>">>

\* the grave accent character (U+0060), written by name
GraveAccent == "grave"

RECURSIVE expandReplacement(_, _, _, _)
\* the replacement string of String.prototype.replace with its patterns
\* expanded: $$ is "$", $& the match, $ with a grave accent the text before
\* it, $' the text after
expandReplacement(r, before, match, after) ==
  IF r = << >> THEN << >>
  ELSE IF r[1] = "$" /\ Len(r) >= 2 /\ r[2] \in { "$", "&", GraveAccent, "'" }
  THEN (CASE r[2] = "$" -> <<"$">>
          [] r[2] = "&" -> match
          [] r[2] = GraveAccent -> before
          [] r[2] = "'" -> after)
       \o expandReplacement(SubSeq(r, 3, Len(r)), before, match, after)
  ELSE <<r[1]>> \o expandReplacement(Tail(r), before, match, after)

\* the index of the first piece of s equal to piece, 0 when there is none
indexOf(s, piece) ==
  IF \E i \in 1..Len(s) : s[i] = piece
  THEN CHOOSE i \in 1..Len(s) : s[i] = piece /\ \A j \in 1..(i - 1) : s[j] # piece
  ELSE 0

\* s.replace(placeholder, replacement) with a string pattern: the first
\* occurrence is replaced
replace(s, placeholder, replacement) ==
  LET i == indexOf(s, placeholder)
  IN IF i = 0 THEN s
     ELSE LET before == SubSeq(s, 1, i - 1)
              after == SubSeq(s, i + 1, Len(s))
          IN before \o expandReplacement(replacement, before, <<placeholder>>, after) \o after

\* renderToString of the application for a context: React escapes the text
renderToString(ctx) == <<"<h1>">> \o escapeHtml(ctx.message) \o <<"</h1>">>

\* the default html template of createHandleRequest
HtmlTemplate ==
  << "<!DOCTYPE html>", "<html lang=\"en\">", "<head>", "<meta charset=\"UTF-8\">",
     "<meta name=\"viewport\" content=\"width=device-width, initial-scale=1.0\">",
     "{{SEO}}", "{{ROUTE_CONTEXT}}", "</head>", "<body>", "<div id=\"root\">",
     "{{CONTENT}}", "</div>", "{{CLIENT_ENTRY}}", "</body>", "</html>" >>

\* renderHtmlWithRequest of createHandleRequest: the document for an ok result
renderHtmlWithRequest(ctx, seo, clientEntry) ==
  LET reactContent == renderToString(ctx)
      seoTags == IF seo.defined THEN generateMetaTags(seo) ELSE << >>
      routeContextScript == generateRouteContextScript(ctx, TRUE)
      clientEntryScript ==
        IF clientEntry
        THEN << "<script type=\"module\" src=\"/client.js\">", "</script>" >>
        ELSE << >>
  IN replace(replace(replace(replace(HtmlTemplate, "{{CONTENT}}", reactContent),
                             "{{SEO}}", seoTags),
                     "{{ROUTE_CONTEXT}}", routeContextScript),
             "{{CLIENT_ENTRY}}", clientEntryScript)

\* the production document of the routes-ssr handleRequest for an ok result
routesSsrDocument(ctx, seo) ==
  << "<!DOCTYPE html>", "<html lang=\"en\">", "<head>", "<meta charset=\"UTF-8\">",
     "<meta name=\"viewport\" content=\"width=device-width, initial-scale=1.0\">",
     "<link rel=\"stylesheet\" href=\"/assets/index.css\">" >>
  \o (IF seo.defined THEN generateMetaTags(seo) ELSE << >>)
  \o generateRouteContextScript(ctx, FALSE)
  \o << "</head>", "<body>", "<div id=\"root\">" >> \o renderToString(ctx)
  \o << "</div>", "<script type=\"module\" src=\"/client.js\">", "</script>", "</body>",
        "</html>" >>

\* the document of the contract-page-2 SSR endpoint for an ok result
cp2Document(ctx, hasAppContext) ==
  << "<!DOCTYPE html>", "<html lang=\"en\">", "<head>", "<meta charset=\"UTF-8\">",
     "<meta name=\"viewport\" content=\"width=device-width, initial-scale=1.0\">",
     "<title>App</title>", "</head>", "<body>", "<div id=\"root\">" >>
  \o renderToString(ctx)
  \o << "</div>", "<script>", "window.__INITIAL_DATA__ = " >> \o stringifyResult(ctx) \o <<";">>
  \o << "window.__INITIAL_PARAMS__ = ", "{", "}", ";" >>
  \o (IF hasAppContext
      THEN <<"window.__APP_CTX__ = ">> \o jsonString(<<"a", "p", "p">>) \o <<";">>
      ELSE << >>)
  \o << "</script>", "<script type=\"module\" src=\"/client.js\">", "</script>", "</body>",
        "</html>" >>

\* characters of the generated context strings
CtxChars == { "<", "$", "'", GraveAccent, "&", "\"", "a" }

\* the message of a generated context: up to MaxCtxLen characters, or "</script>"
CtxMessages ==
  SeqsUpTo(CtxChars, MaxCtxLen) \cup { <<"<", "/", "s", "c", "r", "i", "p", "t", ">">> }

\* seo descriptors of the generated results
Seos == { NoSeo, [defined |-> TRUE, title |-> <<"H", "o", "m", "e">>],
          [defined |-> TRUE, title |-> <<"<">>] }

\* the ok results documents are composed for, and the options of the composer
DocInputs ==
  [ctx : [message : CtxMessages], seo : Seos, clientEntry : BOOLEAN, appContext : BOOLEAN]

\* ------------------------------------------------------------------------
\* Registry construction (createRoutes, initContract)
\* ------------------------------------------------------------------------
\* the decimal digits and their values
DigitValue ==
  ("0" :> 0) @@ ("1" :> 1) @@ ("2" :> 2) @@ ("3" :> 3) @@ ("4" :> 4) @@ ("5" :> 5)
  @@ ("6" :> 6) @@ ("7" :> 7) @@ ("8" :> 8) @@ ("9" :> 9)

\* a property key that is an array index: a canonical decimal numeral
isArrayIndex(key) ==
  /\ key # << >>
  /\ \A i \in 1..Len(key) : key[i] \in DOMAIN DigitValue
  /\ Len(key) = 1 \/ key[1] # "0"

RECURSIVE toNumber(_)
\* the number an array-index key denotes
toNumber(key) ==
  IF key = << >> THEN 0
  ELSE 10 * toNumber(SubSeq(key, 1, Len(key) - 1)) + DigitValue[key[Len(key)]]

RECURSIVE ascending(_)
\* the entries with array-index keys in ascending numeric order of their keys
ascending(entries) ==
  IF entries = << >> THEN << >>
  ELSE LET k == CHOOSE i \in 1..Len(entries) :
                  \A j \in 1..Len(entries) : toNumber(entries[i].key) <= toNumber(entries[j].key)
       IN <<entries[k]>> \o ascending(SubSeq(entries, 1, k - 1) \o SubSeq(entries, k + 1, Len(entries)))

\* Object.entries(routesConfig) of an object literal whose properties were
\* written in the order of declared: array-index keys first, in ascending
\* numeric order, then the other keys in the order they were written
objectEntries(declared) ==
  ascending(SelectSeq(declared, LAMBDA r : isArrayIndex(r.key)))
  \o SelectSeq(declared, LAMBDA r : ~isArrayIndex(r.key))

RECURSIVE objectLiteralFrom(_, _)
\* the properties of an object literal written as the entries of written,
\* from entry k on: a name written more than once is one property, at the
\* position of its first occurrence and with the value written last
objectLiteralFrom(written, k) ==
  IF k > Len(written) THEN << >>
  ELSE IF \E j \in 1..(k - 1) : written[j].key = written[k].key
  THEN objectLiteralFrom(written, k + 1)
  ELSE LET same == { j \in k..Len(written) : written[j].key = written[k].key }
           last == CHOOSE j \in same : \A i \in same : i <= j
       IN <<written[last]>> \o objectLiteralFrom(written, k + 1)

\* createRoutes({routes}): routeMap, filled in the order of Object.entries
\* of the routes object
createRoutes(declared) == objectEntries(objectLiteralFrom(declared, 1))

\* initContract().definePage called once per declared page: pages.push
initContractPages(declared) == declared

RECURSIVE matchRoutePagesFrom(_, _, _)
\* the for loop of contract.matchRoute over the pages of a contract, from
\* page k on
matchRoutePagesFrom(pages, k, reqUrl) ==
  IF k > Len(pages) THEN MatchNull
  ELSE LET params == matchPathCp2(pages[k].path, reqUrl)
       IN IF params = MatchThrow THEN MatchThrow
          ELSE IF params # MatchNull
          THEN [type |-> "match", route |-> pages[k], params |-> params.params,
                key |-> pages[k].key]
          ELSE matchRoutePagesFrom(pages, k + 1, reqUrl)

\* route names of the generated declarations
RouteKeys == { <<"a">>, <<"b">>, <<"1">>, <<"2">>, <<"0", "1">> }

\* route patterns of the generated declarations, and the pathnames looked up
RoutePaths == { <<"/", "a">>, <<"/", ":", "i">>, <<"/", ":", "j">> }
LookupPaths == { <<"/", "a">>, <<"/", "x">> }

\* declarations of up to MaxRoutes routes; a name or a pattern may be
\* declared twice
Declarations == SeqsUpTo([key : RouteKeys, path : RoutePaths], MaxRoutes)

\* ------------------------------------------------------------------------
\* routes-dsl: the SEO descriptor of a route (createRoute, seo)
\* ------------------------------------------------------------------------
\* a field of a config: a string, a function of the params (here the one
\* returning params[key]), or a key that is present with the value undefined
Str(s) == [kind |-> "string", value |-> s]
Fn(key) == [kind |-> "function", value |-> key]
Undef == [kind |-> "undefined", value |-> ""]

\* obj[key] of an object whose key may be missing
fieldOf(obj, key) == IF key \in DOMAIN obj THEN obj[key] ELSE Undef

\* defaults?.[key]
defaultOf(defaults, key) == IF key \in DOMAIN defaults THEN defaults[key] ELSE Undefined

\* resolve(value, defaultValue): undefined gives the default, a function is
\* called with the params, anything else is the value itself
resolve(value, defaultValue, fullParams) ==
  IF value.kind = "undefined" THEN defaultValue
  ELSE IF value.kind = "function"
  THEN IF value.value \in DOMAIN fullParams THEN fullParams[value.value] ELSE Undefined
  ELSE value.value

\* resolveObject(obj, defaults): the entries of obj, each resolved with the
\* default of its key, without those that resolve to undefined. An object
\* left without keys is returned as undefined (here: the empty object, which
\* the callers treat alike).
resolveObject(obj, defaults, fullParams) ==
  LET resolved(key) == resolve(obj[key], defaultOf(defaults, key), fullParams)
      keys == { key \in DOMAIN obj : resolved(key) # Undefined }
  IN [key \in keys |-> resolved(key)]

\* a || b on strings
orElse(a, b) == IF a = Undefined \/ a = "" THEN b ELSE a

\* the robots object with indexable: false overriding the explicit directives
robotsOf_indexableWins(config) ==
  LET fromIndexable ==
        IF "indexable" \in DOMAIN config /\ config.indexable = FALSE
        THEN [index |-> FALSE, follow |-> FALSE] ELSE EmptyObject
      explicit == IF "robots" \in DOMAIN config THEN config.robots ELSE EmptyObject
  IN fromIndexable @@ explicit

\* the robots object of the regular mode: the defaults of indexable: false,
\* overridden by the explicit directives
robotsOf(config) ==
  LET fromIndexable ==
        IF "indexable" \in DOMAIN config /\ config.indexable = FALSE
        THEN [index |-> FALSE, follow |-> FALSE] ELSE EmptyObject
      explicit == IF "robots" \in DOMAIN config THEN config.robots ELSE EmptyObject
  IN explicit @@ fromIndexable

\* the descriptor of the redirect-only mode with 302 as the default status
redirectSeo_default302(routeName, config, fullParams) ==
  [title |-> routeName, description |-> "", indexable |-> FALSE,
   robots |-> [index |-> FALSE, follow |-> FALSE],
   redirect |-> [to |-> resolve(config.redirect.to, Undefined, fullParams),
                 status |-> IF "status" \in DOMAIN config.redirect
                            THEN config.redirect.status ELSE 302]]

\* the descriptor of the redirect-only mode
redirectSeo(routeName, config, fullParams) ==
  [title |-> routeName, description |-> "", indexable |-> FALSE,
   robots |-> [index |-> FALSE, follow |-> FALSE],
   redirect |-> [to |-> resolve(config.redirect.to, Undefined, fullParams),
                 status |-> IF "status" \in DOMAIN config.redirect
                            THEN config.redirect.status ELSE 301]]

\* the descriptor of the regular mode
regularSeo(routeName, config, fullParams) ==
  LET title == orElse(resolve(fieldOf(config, "title"), Undefined, fullParams), routeName)
      description == orElse(resolve(fieldOf(config, "description"), Undefined, fullParams), "")
      indexable == IF "indexable" \in DOMAIN config
                   THEN [indexable |-> config.indexable] ELSE EmptyObject
      robots == IF ("robots" \in DOMAIN config \/ "indexable" \in DOMAIN config)
                   /\ DOMAIN robotsOf(config) # {}
                THEN [robots |-> robotsOf(config)] ELSE EmptyObject
      og == IF "og" \in DOMAIN config
            THEN resolveObject(config.og,
                               [title |-> title, description |-> description,
                                type |-> "website"], fullParams)
            ELSE EmptyObject
      twitter == IF "twitter" \in DOMAIN config
                 THEN resolveObject(config.twitter,
                                    [card |-> "summary", title |-> title,
                                     description |-> description], fullParams)
                 ELSE EmptyObject
      canonical == resolve(fieldOf(config, "canonical"), Undefined, fullParams)
      meta == IF "meta" \in DOMAIN config
              THEN resolveObject(config.meta, EmptyObject, fullParams) ELSE EmptyObject
  IN [title |-> title, description |-> description]
       @@ indexable @@ robots
       @@ (IF DOMAIN og # {} THEN [og |-> og] ELSE EmptyObject)
       @@ (IF DOMAIN twitter # {} THEN [twitter |-> twitter] ELSE EmptyObject)
       @@ (IF canonical # Undefined THEN [canonical |-> canonical] ELSE EmptyObject)
       @@ (IF DOMAIN meta # {} THEN [meta |-> meta] ELSE EmptyObject)

\* route.seo(params) of createRoute(name, definition). A redirect of the
\* config is an object, so ('redirect' in seo && seo.redirect) is the
\* presence of the key.
seo(definition, params) ==
  IF "seo" \notin DOMAIN definition
  THEN [title |-> definition.name, description |-> ""]
  ELSE IF "redirect" \in DOMAIN definition.seo
  THEN redirectSeo(definition.name, definition.seo, params)
  ELSE regularSeo(definition.name, definition.seo, params)

\* a call of route.seo that writes the resolved title back into the config
seoCall_writesTitle(definition, params) ==
  [descriptor |-> seo(definition, params),
   definition |-> IF "seo" \in DOMAIN definition
                  THEN [definition EXCEPT
                          !.seo = [title |-> Str(seo(definition, params).title)] @@ definition.seo]
                  ELSE definition]

\* a call route.seo(params): the descriptor returned and the definition of
\* the route after the call (seo only reads definition.seo and builds new
\* objects)
seoCall(definition, params) ==
  [descriptor |-> seo(definition, params), definition |-> definition]

\* ------------------------------------------------------------------------
\* Inputs of seo
\* ------------------------------------------------------------------------
\* the params seo is called with: none (the default {}) or an id
SeoParams == { EmptyObject, [id |-> "7"] }

\* the parts a seo config is put together from
TitleParts == { EmptyObject, [title |-> Str("T")], [title |-> Fn("id")] }
DescriptionParts == { EmptyObject, [description |-> Str("D")] }
IndexableParts == { EmptyObject, [indexable |-> TRUE], [indexable |-> FALSE] }
RobotsParts ==
  { EmptyObject }
  \cup { [robots |-> r] :
           r \in { EmptyObject, [index |-> TRUE], [index |-> FALSE], [follow |-> TRUE],
                   [index |-> TRUE, follow |-> FALSE] } }
OgParts ==
  { EmptyObject }
  \cup { [og |-> o] :
           o \in { EmptyObject, [image |-> Str("i")], [title |-> Str("OT")],
                   [title |-> Undef, image |-> Str("i")] } }
TwitterParts ==
  { EmptyObject }
  \cup { [twitter |-> t] :
           t \in { [card |-> Str("summary_large_image")],
                   [title |-> Str("TT"), description |-> Undef] } }
ExtraParts == { EmptyObject, [canonical |-> Str("/c"), meta |-> [author |-> Str("A")]] }
RedirectParts ==
  { EmptyObject }
  \cup { [redirect |-> r] :
           r \in { [to |-> Str("/l")], [to |-> Fn("id")], [to |-> Str("/l"), status |-> 302] } }

\* the seo configs of a route definition
SeoConfigs ==
  { t @@ d @@ i @@ r @@ o @@ tw @@ x @@ rd :
      t \in TitleParts, d \in DescriptionParts, i \in IndexableParts, r \in RobotsParts,
      o \in OgParts, tw \in TwitterParts, x \in ExtraParts, rd \in RedirectParts }

\* route definitions: without seo, or with one of the configs
RouteDefinitions ==
  { [name |-> "home"] } \cup { [name |-> "home", seo |-> c] : c \in SeoConfigs }

\* ------------------------------------------------------------------------
\* routes-dsl: the url of a route (createRoute, url)
\* ------------------------------------------------------------------------
\* s starts with the string prefix at index i
hasAt(s, i, prefix) ==
  i + Len(prefix) - 1 <= Len(s) /\ SubSeq(s, i, i + Len(prefix) - 1) = prefix

RECURSIVE replaceParamFrom(_, _, _, _)
\* path.replace(new RegExp(':' + key + '(\\?)?', 'g'), value) from index i
\* of path on: every occurrence of ":key", with the "?" that follows it if
\* there is one, becomes the replacement
replaceParamFrom(path, i, key, value) ==
  IF i > Len(path) THEN << >>
  ELSE IF hasAt(path, i, <<":">> \o key)
  THEN LET end == i + Len(key)
           last == IF end + 1 <= Len(path) /\ path[end + 1] = "?" THEN end + 1 ELSE end
       IN expandReplacement(value, SubSeq(path, 1, i - 1), SubSeq(path, i, last),
                            SubSeq(path, last + 1, Len(path)))
          \o replaceParamFrom(path, last + 1, key, value)
  ELSE <<path[i]>> \o replaceParamFrom(path, i + 1, key, value)

\* the index of the last "?" that the match of /\/:[^/]+\?/ starting at the
\* "/" at index i ends with (0: no match there): "/", ":", one or more
\* characters other than "/", taken greedily, and a "?"
optionalEnd(path, i) ==
  IF ~hasAt(path, i, <<"/", ":">>) THEN 0
  ELSE LET stops == { j \in (i + 2)..Len(path) : path[j] = "/" }
           segEnd == IF stops = {} THEN Len(path)
                     ELSE (CHOOSE j \in stops : \A k \in stops : j <= k) - 1
           marks == { j \in (i + 3)..segEnd : path[j] = "?" }
       IN IF marks = {} THEN 0 ELSE CHOOSE j \in marks : \A k \in marks : k <= j

RECURSIVE removeOptionalFrom(_, _)
\* path.replace(/\/:[^/]+\?/g, '') from index i of path on
removeOptionalFrom(path, i) ==
  IF i > Len(path) THEN << >>
  ELSE IF optionalEnd(path, i) # 0 THEN removeOptionalFrom(path, optionalEnd(path, i) + 1)
  ELSE <<path[i]>> \o removeOptionalFrom(path, i + 1)

\* a param given as undefined
UndefinedValue == <<Undefined>>

RECURSIVE urlLoop(_, _, _)
\* the for loop of url over Object.entries(params), from entry k on; an
\* entry whose value is undefined is skipped
urlLoop(path, entries, k) ==
  IF k > Len(entries) THEN path
  ELSE IF entries[k].value = UndefinedValue THEN urlLoop(path, entries, k + 1)
  ELSE urlLoop(replaceParamFrom(path, 1, entries[k].key, entries[k].value), entries, k + 1)

\* route.url(params) of a route created with the pattern definitionPath;
\* params is given as its entries in the order of Object.entries
routeUrl(definitionPath, entries) ==
  removeOptionalFrom(urlLoop(definitionPath, entries, 1), 1)

\* ------------------------------------------------------------------------
\* Inputs of url
\* ------------------------------------------------------------------------
\* segments of the patterns urls are generated for: one name is a prefix of
\* the other
UrlPatternSegs == { <<"a">>, <<":", "i", "d">>, <<":", "i", "d", "x">>, <<":", "i", "d", "?">> }

\* param names and values
UrlParamKeys == { <<"i", "d">>, <<"i", "d", "x">> }
UrlParamValues == { <<"7">>, <<"8">>, UndefinedValue }

\* params objects as their entries: distinct keys in any order
UrlParams ==
  { e \in SeqsUpTo([key : UrlParamKeys, value : UrlParamValues], 2) :
      \A i, j \in 1..Len(e) : i # j => e[i].key # e[j].key }

\* ------------------------------------------------------------------------
\* routes-dsl: the routes object (createRoutesFactory)
\* ------------------------------------------------------------------------
\* createRoute(definition, key, getContext): the route with its name
createRoute(entry) ==
  [name |-> entry.key, path |-> entry.definition.path,
   definition |-> [name |-> entry.key] @@ entry.definition]

\* the routes function: one createRoute per entry of
\* Object.entries(definitions), pushed to routeList
createRoutesFactory(written) ==
  LET entries == objectEntries(written)
  IN [i \in 1..Len(entries) |-> createRoute(entries[i])]

\* the filter of _sitemap and _seoManifest: !r.seo().redirect
hasNoRedirect(route) == "redirect" \notin DOMAIN seo(route.definition, EmptyObject)

\* _sitemap()
sitemapOf(routes) ==
  LET kept == SelectSeq(routes, hasNoRedirect)
  IN [i \in 1..Len(kept) |->
        [url |-> routeUrl(kept[i].path, << >>), lastmod |-> "now",
         changefreq |-> "daily", priority |-> "0.8"]]

\* _seoManifest()
seoManifestOf(routes) ==
  LET kept == SelectSeq(routes, hasNoRedirect)
  IN [i \in 1..Len(kept) |->
        [route |-> kept[i].name, path |-> kept[i].path,
         seo |-> seo(kept[i].definition, EmptyObject)]]

\* ------------------------------------------------------------------------
\* Inputs of the routes object
\* ------------------------------------------------------------------------
\* seo configs of the written definitions: regular, and with a redirect
FactorySeoConfigs ==
  { [title |-> Str("T")], [redirect |-> [to |-> Str("/l")]],
    [redirect |-> [to |-> Fn("id")], title |-> Str("T")] }

\* definitions of a route: with and without seo
FactoryDefinitions ==
  { [path |-> p] : p \in { <<"/", "a">>, <<"/", ":", "i", "d", "?">> } }
  \cup { [path |-> <<"/", "a">>, seo |-> c] : c \in FactorySeoConfigs }

\* objects of up to MaxRoutes definitions with distinct names, as written
WrittenDefinitions ==
  { d \in SeqsUpTo([key : RouteKeys, definition : FactoryDefinitions], MaxRoutes) :
      \A i, j \in 1..Len(d) : i # j => d[i].key # d[j].key }

\* ------------------------------------------------------------------------
\* The document head written by the SPA dispatcher (updateSeoMetadata)
\* ------------------------------------------------------------------------
\* String.prototype.startsWith
hasPrefix(s, prefix) == Len(s) >= Len(prefix) /\ SubSeq(s, 1, Len(prefix)) = prefix

OgPrefix == <<"o", "g", ":">>
TwitterPrefix == <<"t", "w", "i", "t", "t", "e", "r", ":">>
DescriptionName == <<"d", "e", "s", "c", "r", "i", "p", "t", "i", "o", "n">>

\* document.querySelector('meta[attr="name"]'): the index of the first such
\* tag of the head, 0 when there is none
querySelectorMeta(metas, attr, name) ==
  IF \E k \in 1..Len(metas) : metas[k].attr = attr /\ metas[k].name = name
  THEN CHOOSE k \in 1..Len(metas) :
         /\ metas[k].attr = attr /\ metas[k].name = name
         /\ \A j \in 1..(k - 1) : ~(metas[j].attr = attr /\ metas[j].name = name)
  ELSE 0

\* the tag meta[attr="name"] is created and appended when the head has
\* none, and its content attribute is set
setMetaContent(metas, attr, name, content) ==
  LET k == querySelectorMeta(metas, attr, name)
  IN IF k = 0 THEN Append(metas, [attr |-> attr, name |-> name, content |-> content])
     ELSE [metas EXCEPT ![k].content = content]

RECURSIVE setMetaTags(_, _, _)
\* Object.entries(seo.meta).forEach of updateSeoMetadata, from entry k on
setMetaTags(metas, entries, k) ==
  IF k > Len(entries) THEN metas
  ELSE LET name == entries[k].name
           isProperty == hasPrefix(name, OgPrefix) \/ hasPrefix(name, TwitterPrefix)
           attr == IF isProperty THEN "property" ELSE "name"
       IN setMetaTags(setMetaContent(metas, attr, name, entries[k].content), entries, k + 1)

\* updateSeoMetadata(seo) in a browser: the document after the call
updateSeoMetadata(doc, seoDescriptor) ==
  LET title == IF "title" \in DOMAIN seoDescriptor /\ seoDescriptor.title # ""
               THEN seoDescriptor.title ELSE doc.title
      described == IF "description" \in DOMAIN seoDescriptor /\ seoDescriptor.description # ""
                   THEN setMetaContent(doc.metas, "name", DescriptionName, seoDescriptor.description)
                   ELSE doc.metas
      metas == IF "meta" \in DOMAIN seoDescriptor
               THEN setMetaTags(described, seoDescriptor.meta, 1) ELSE described
  IN [title |-> title, metas |-> metas]

RECURSIVE runDocumentEffects(_, _)
\* the document after the updateSeoMetadata calls among the side effects of
\* the SPA dispatcher
runDocumentEffects(doc, effs) ==
  IF effs = << >> THEN doc
  ELSE runDocumentEffects(IF Head(effs).fn = "updateSeoMetadata"
                          THEN updateSeoMetadata(doc, Head(effs).seo) ELSE doc,
                          Tail(effs))

\* SEO descriptors of page results: each field present or omitted; meta as
\* its entries, a property tag (og:t) and a name tag (k)
HeadTitles == { "A", "B" }
HeadDescriptions == { "D", "E" }
HeadMetas ==
  { << [name |-> <<"o", "g", ":", "t">>, content |-> "A"] >>,
    << [name |-> <<"k">>, content |-> "K"] >> }
HeadSeos ==
  { t @@ d @@ m :
      t \in { EmptyObject } \cup { [title |-> x] : x \in HeadTitles },
      d \in { EmptyObject } \cup { [description |-> x] : x \in HeadDescriptions },
      m \in { EmptyObject } \cup { [meta |-> x] : x \in HeadMetas } }

\* results of a page handled by the SPA dispatcher: ok and not-found with
\* and without seo, and a redirect
HeadResults ==
  { [type |-> "ok", ctx |-> "ctx"], [type |-> "not-found"],
    [type |-> "redirect", to |-> <<"/", "l">>] }
  \cup { [type |-> "ok", ctx |-> "ctx", seo |-> sd] : sd \in HeadSeos }
  \cup { [type |-> "not-found", seo |-> [title |-> "B"]] }

\* the head of the document the server rendered
InitialHead == [title |-> "Server", metas |-> << >>]

\* ------------------------------------------------------------------------
\* State
\* ------------------------------------------------------------------------
VARIABLES
  pattern,     \* matcher: the pattern argument
  pathname,    \* matcher: the pathname argument
  matched,     \* matcher: the value matchPath returned (Pending before the call)
  dispatcher,  \* the dispatcher that handled the request ("none" before)
  request,     \* the request and what its collaborators do when called
  calls,       \* the app-context and handler calls the dispatcher made, in order
  effects,     \* the side effects of an SPA dispatcher: navigate, document updates
  pageResult,  \* the PageResult the dispatcher branched on
  response,    \* the Response produced, or the rejection that escaped
  adapter,     \* SPA: the adapter component that is mounted
  history,     \* SPA: window.history, its entries and the index of the current one
  effectDeps,  \* SPA: the dependencies the adapter's effect last ran for
  context,     \* SPA: the value last given to setContext / setPageContext
  inflight,    \* SPA: the pending promises the adapter awaits, oldest first
  settled,     \* SPA: the promise whose continuation ran in the last step, if one did
  url,                  \* AppComponent: the url state
  isLoading,            \* AppComponent: the isLoading state
  appContextState,      \* AppComponent: the appContextState state
  isLoadingAppContext,  \* AppComponent: the isLoadingAppContext state
  navigationCache,      \* contract-page-2: the navigationCache map
  windowInitialData,    \* contract-page-2: window.__INITIAL_DATA__
  windowAppCtx,         \* contract-page-2: window.__APP_CTX__
  lastNavigation,       \* contract-page-2: the latest navigateTo call while fetches of navigateTo are pending
  inputUrl,          \* PageInput: the url of the first load and of the navigation
  searchParamsForm,  \* PageInput: the form of the searchParams option
  ssrInput,          \* PageInput: what handleSsrRequestFetch built
  spaInput,          \* PageInput: what routes.handleSpaNavigation built
  composer,          \* document: the dispatcher that composed it ("none" before)
  docInput,          \* document: the ok result and the composer's options
  document,          \* document: the composed html
  declared,    \* registry: the routes in the order they were declared
  registry,    \* registry: the registry built from them, in its iteration order
  lookupPath,  \* registry: the pathname looked up
  found,       \* registry: what matchRoute returned (Pending before the call)
  routeDefinition,  \* seo: the definition the route was created with
  seoParams,        \* seo: the params seo was called with
  descriptor,       \* seo: what seo(params) returned (NoDescriptor before the call)
  descriptorAgain,  \* seo: what a second seo(params) with the same params returned
  urlPattern,  \* url: the pattern of the route
  urlParams,  \* url: the params url is called with, as entries
  generatedUrl,  \* url: what url(params) returned (NoUrl before the call)
  definitions,  \* factory: the route definitions in the order they were written
  routeList,  \* factory: routeList of the routes object (built: FALSE before the call)
  sitemap,  \* factory: what _sitemap() returned (called: FALSE before the call)
  seoManifest,  \* factory: what _seoManifest() returned (called: FALSE before the call)
  documentHead,  \* head: document.title and the meta tags of document.head, in document order
  handledResult   \* head: the page result the SPA dispatcher handled last (NoResult before)

matchVars == <<pattern, pathname, matched>>

dispatchVars == <<dispatcher, request, calls, effects, pageResult, response>>

cp2Vars == <<url, isLoading, appContextState, isLoadingAppContext, navigationCache,
             windowInitialData, windowAppCtx, lastNavigation>>

spaVars == <<adapter, history, effectDeps, context, inflight, settled, cp2Vars>>

vars == <<pattern, pathname, matched, dispatcher, request, calls, effects, pageResult, response,
          adapter, history, effectDeps, context, inflight, settled, url, isLoading,
          appContextState, isLoadingAppContext, navigationCache, windowInitialData,
          windowAppCtx, lastNavigation, inputUrl, searchParamsForm, ssrInput, spaInput, composer, docInput,
          document, declared, registry, lookupPath, found, routeDefinition, seoParams,
          descriptor, descriptorAgain,
          urlPattern, urlParams, generatedUrl,
          definitions, routeList, sitemap, seoManifest,
          documentHead, handledResult>>

registryVars == <<declared, registry, lookupPath, found>>

seoVars == <<routeDefinition, seoParams, descriptor, descriptorAgain>>

urlVars == <<urlPattern, urlParams, generatedUrl>>

factoryVars == <<definitions, routeList, sitemap, seoManifest>>

headVars == <<documentHead, handledResult>>

\* no document head is being updated
HeadIdle ==
  /\ documentHead = [title |-> "", metas |-> << >>]
  /\ handledResult = NoResult

\* no registry has been built
NoRegistry == [kind |-> "none", routes |-> << >>]

inputVars == <<inputUrl, searchParamsForm, ssrInput, spaInput>>

documentVars == <<composer, docInput, document>>

\* no PageInput is being built
InputIdle ==
  /\ inputUrl = [pathname |-> << >>, search |-> << >>]
  /\ searchParamsForm = "none"
  /\ ssrInput = NoInput
  /\ spaInput = NoInput

\* no match has been computed
Pending == [type |-> "pending"]

\* no route was created and seo was not called
NoDefinition == [name |-> ""]
NoDescriptor == [title |-> Undefined]

\* no route is being described
SeoIdle ==
  /\ routeDefinition = NoDefinition
  /\ seoParams = EmptyObject
  /\ descriptor = NoDescriptor
  /\ descriptorAgain = NoDescriptor

\* url was not called
NoUrl == <<"(none)">>

\* no url is being generated
UrlIdle ==
  /\ urlPattern = << >>
  /\ urlParams = << >>
  /\ generatedUrl = NoUrl

\* the routes object was not built, a view was not read
NotBuilt == [built |-> FALSE, routes |-> << >>]
NotCalled == [called |-> FALSE, entries |-> << >>]

\* no routes object is being built
FactoryIdle ==
  /\ definitions = << >>
  /\ routeList = NotBuilt
  /\ sitemap = NotCalled
  /\ seoManifest = NotCalled

\* no routes are being registered
RegistryIdle ==
  /\ declared = << >>
  /\ registry = NoRegistry
  /\ lookupPath = << >>
  /\ found = Pending

\* no document has been composed
NoDocument == << >>

\* no document is being composed
DocumentIdle ==
  /\ composer = "none"
  /\ docInput = [ctx |-> [message |-> << >>], seo |-> NoSeo, clientEntry |-> FALSE,
                 appContext |-> FALSE]
  /\ document = NoDocument

\* pageContractLegacy and pageContract are the ReactRouterAdapter built on the
\* first and the second variant of handleSpaNavigation
RouterAdapters == { "pageContractLegacy", "pageContract", "routesSsr" }
Adapters == RouterAdapters \cup { "cp2" }

\* the effect has not run yet
NoDeps == <<"(mount)">>

\* no continuation ran in the last step
NoSettled == [kind |-> "none"]

\* the continuation of a promise awaited for path ran with outcome
Settled(kind, path, outcome) == [kind |-> kind, path |-> path, outcome |-> outcome]

\* no fetch of navigateTo is pending
NoNavigation == [url |-> <<"(none)">>, state |-> "none"]

\* no SPA adapter is mounted
SpaIdle ==
  /\ adapter = "none"
  /\ history = [entries |-> << >>, at |-> 0]
  /\ effectDeps = NoDeps
  /\ context = NullContext
  /\ inflight = << >>
  /\ settled = NoSettled
  /\ url = << >>
  /\ isLoading = FALSE
  /\ appContextState = Undefined
  /\ isLoadingAppContext = FALSE
  /\ navigationCache = { }
  /\ windowInitialData = UndefinedData
  /\ windowAppCtx = Undefined
  /\ lastNavigation = NoNavigation

\* the matcher is not in use
MatchIdle ==
  /\ pattern = << >>
  /\ pathname = << >>
  /\ matched = Pending

\* no request has been handled
DispatchIdle ==
  /\ dispatcher = "none"
  /\ request = [url |-> << >>]
  /\ calls = << >>
  /\ effects = << >>
  /\ pageResult = NoResult
  /\ response = [kind |-> "none"]

\* ------------------------------------------------------------------------
\* Matcher: one call of matchPath on generated arguments
\* ------------------------------------------------------------------------
InitMatch ==
  /\ pattern \in { PathOf(s) : s \in SeqsUpTo(PatternSegs, MaxSegs) }
  /\ pathname \in { PathOf(s) : s \in SeqsUpTo(PathSegs, MaxSegs) }
  /\ matched = Pending
  /\ DispatchIdle
  /\ SpaIdle
  /\ InputIdle
  /\ DocumentIdle
  /\ RegistryIdle /\ SeoIdle /\ UrlIdle /\ FactoryIdle /\ HeadIdle

\* a call matchPath(pattern, pathname)
Match ==
  /\ matched = Pending
  /\ matched' = matchPath(pattern, pathname)
  /\ UNCHANGED <<pattern, pathname>>
  /\ UNCHANGED <<dispatchVars, spaVars, inputVars, documentVars, registryVars, seoVars, urlVars, factoryVars, headVars>>

NextMatch == Match

SpecMatch == InitMatch /\ [][NextMatch]_vars

\* ------------------------------------------------------------------------
\* Dispatchers: one request handled from start to end. Requests share no
\* state (the registry is read-only), so each behaviour handles one request.
\* ------------------------------------------------------------------------
InitDispatch ==
  MatchIdle /\ DispatchIdle /\ SpaIdle /\ InputIdle /\ DocumentIdle /\ RegistryIdle /\ SeoIdle /\ UrlIdle /\ FactoryIdle /\ HeadIdle

\* the dispatcher d handled req with outcome out
Handled(d, req, out) ==
  /\ dispatcher' = d
  /\ request' = req
  /\ calls' = out.calls
  /\ effects' = IF "effects" \in DOMAIN out THEN out.effects ELSE << >>
  /\ pageResult' = out.result
  /\ response' = out.response
  /\ UNCHANGED <<matchVars, spaVars, inputVars, documentVars, registryVars, seoVars, urlVars, factoryVars, headVars>>

\* handleSsrRequestFetch called with a route of the registry
HandleSsrRequestFetch ==
  /\ dispatcher = "none"
  /\ \E k \in 1..Len(RoutesConfig), reqUrl \in DispatchUrls, options \in RenderOptions,
        appContext \in AppContextOutcomes, handler \in Outcomes(PageResults) :
       Handled("handleSsrRequestFetch",
               [url |-> reqUrl, route |-> RoutesConfig[k], options |-> options,
                appContext |-> appContext, handler |-> handler],
               handleSsrRequestFetch(RoutesConfig[k], reqUrl, options, appContext, handler))

\* handleSsrRequest (Node) called with a route of the registry
HandleSsrRequest ==
  /\ dispatcher = "none"
  /\ \E k \in 1..Len(RoutesConfig), reqUrl \in DispatchUrls, options \in RenderOptions,
        appContext \in AppContextOutcomes, handler \in Outcomes(PageResults) :
       Handled("handleSsrRequest",
               [url |-> reqUrl, route |-> RoutesConfig[k], options |-> options,
                appContext |-> appContext, handler |-> handler],
               handleSsrRequest(RoutesConfig[k], reqUrl, options, appContext, handler))

\* the handler made by routes.createHandleRequest, in its two variants
CreateHandleRequest ==
  /\ dispatcher = "none"
  /\ \E withHooks \in BOOLEAN, reqUrl \in DispatchUrls, options \in RenderOptions,
        appContext \in AppContextOutcomes, handler \in Outcomes(PageResults) :
       Handled("createHandleRequest",
               [url |-> reqUrl, withHooks |-> withHooks, options |-> options,
                appContext |-> appContext, handler |-> handler],
               createHandleRequest(withHooks, reqUrl, options, appContext, handler))

\* handleRequest of the routes-ssr server entry
RoutesSsrHandleRequest ==
  /\ dispatcher = "none"
  /\ \E reqUrl \in DispatchUrls, handler \in Outcomes(RoutesSsrResults) :
       Handled("routesSsrHandleRequest", [url |-> reqUrl, handler |-> handler],
               routesSsrHandleRequest(reqUrl, handler))

\* the SSR endpoint of the contract-page-2 server
Cp2SsrEndpoint ==
  /\ dispatcher = "none"
  /\ \E reqUrl \in DispatchUrls, hasAppContext \in BOOLEAN,
        appContext \in AppContextOutcomes, handler \in Outcomes(Cp2Results) :
       Handled("cp2SsrEndpoint",
               [url |-> reqUrl, hasAppContext |-> hasAppContext,
                appContext |-> appContext, handler |-> handler],
               cp2SsrEndpoint(reqUrl, hasAppContext, appContext, handler))

\* GET /api/page?url=... on the server of contract-page-2
Cp2ApiPage ==
  /\ dispatcher = "none"
  /\ \E reqUrl \in DispatchUrls \cup { << >> }, hasAppContext \in BOOLEAN,
        appContext \in AppContextOutcomes, handler \in Outcomes(Cp2Results) :
       Handled("cp2ApiPage",
               [url |-> reqUrl, hasAppContext |-> hasAppContext,
                appContext |-> appContext, handler |-> handler],
               cp2ApiPage(reqUrl, hasAppContext, appContext, handler))

\* handleSpaNavigation called with a route of the registry, in its two variants
HandleSpaNavigation ==
  /\ dispatcher = "none"
  /\ \E legacy \in BOOLEAN, k \in 1..Len(RoutesConfig), options \in SpaOptions,
        appContext \in AppContextOutcomes, handler \in Outcomes(PageResults) :
       Handled("handleSpaNavigation",
               [url |-> << >>, legacy |-> legacy, route |-> RoutesConfig[k],
                options |-> options, appContext |-> appContext, handler |-> handler],
               handleSpaNavigation(legacy, RoutesConfig[k], options, appContext, handler))

\* routes.handleSpaNavigation called with a pathname
RoutesHandleSpaNavigation ==
  /\ dispatcher = "none"
  /\ \E reqUrl \in DispatchUrls, options \in SpaOptions,
        appContext \in AppContextOutcomes, handler \in Outcomes(PageResults) :
       Handled("routesHandleSpaNavigation",
               [url |-> reqUrl, options |-> options, appContext |-> appContext,
                handler |-> handler],
               handleSpaNavigationFunction(reqUrl, options, appContext, handler))

NextDispatch ==
  \/ HandleSsrRequestFetch
  \/ HandleSsrRequest
  \/ CreateHandleRequest
  \/ RoutesSsrHandleRequest
  \/ Cp2SsrEndpoint
  \/ Cp2ApiPage
  \/ HandleSpaNavigation
  \/ RoutesHandleSpaNavigation

SpecDispatch == InitDispatch /\ [][NextDispatch]_vars

\* ------------------------------------------------------------------------
\* SPA adapters: the two ReactRouterAdapter components and the AppComponent
\* of contract-page-2
\* ------------------------------------------------------------------------
\* the adapter is mounted on the document the server rendered for "/": the
\* router adapters start from the provider's initial context, the
\* AppComponent from window.__INITIAL_DATA__ and window.__APP_CTX__
InitSpa ==
  /\ MatchIdle /\ DispatchIdle /\ InputIdle /\ DocumentIdle /\ RegistryIdle /\ SeoIdle /\ UrlIdle /\ FactoryIdle /\ HeadIdle
  /\ adapter \in Adapters
  /\ history = [entries |-> << <<"/">> >>, at |-> 1]
  /\ effectDeps = NoDeps
  /\ inflight = << >>
  /\ settled = NoSettled
  /\ isLoading = FALSE
  /\ isLoadingAppContext = FALSE
  /\ navigationCache = { }
  /\ lastNavigation = NoNavigation
  /\ IF adapter = "cp2"
     THEN /\ url = <<"/">>
          /\ windowInitialData = [type |-> "ok", data |-> ctxOf(<<"/">>)]
          /\ context = windowInitialData
          /\ windowAppCtx = appCtxOf(<<"/">>)
          /\ appContextState = windowAppCtx
     ELSE /\ url = << >>
          /\ windowInitialData = UndefinedData
          /\ windowAppCtx = Undefined
          /\ appContextState = Undefined
          /\ context = Exposed(ctxOf(<<"/">>), "none")

\* the dependencies of the effect: location.pathname, or the url state
CurrentDeps == IF adapter = "cp2" THEN url ELSE locationPathname(history)

\* React has run the effect for the current dependencies
EffectsFlushed == effectDeps = CurrentDeps

\* the user follows a <Link> of react-router: the path is pushed
NavigateLink ==
  /\ adapter \in RouterAdapters
  /\ EffectsFlushed
  /\ Len(history.entries) < MaxHistory
  /\ \E to \in NavPaths :
       /\ to # locationPathname(history)
       /\ history' = navigate(history, to, FALSE)
  /\ UNCHANGED <<adapter, effectDeps, context, inflight, cp2Vars>>
  /\ settled' = NoSettled
  /\ UNCHANGED <<matchVars, dispatchVars, inputVars, documentVars, registryVars, seoVars, urlVars, factoryVars, headVars>>

\* the user goes back: popstate; the onPopState handler of the AppComponent
\* sets the url state
Back ==
  /\ adapter \in Adapters
  /\ EffectsFlushed
  /\ history.at > 1
  /\ history' = back(history)
  /\ url' = IF adapter = "cp2" THEN locationPathname(history') ELSE url
  /\ UNCHANGED <<adapter, effectDeps, context, inflight, isLoading, appContextState,
                 isLoadingAppContext, navigationCache, windowInitialData, windowAppCtx,
                 lastNavigation>>
  /\ settled' = NoSettled
  /\ UNCHANGED <<matchVars, dispatchVars, inputVars, documentVars, registryVars, seoVars, urlVars, factoryVars, headVars>>

\* the effect of the routes-ssr ReactRouterAdapter up to its first await
RunEffectRoutesSsr ==
  /\ adapter = "routesSsr"
  /\ ~EffectsFlushed
  /\ effectDeps' = locationPathname(history)
  /\ LET path == locationPathname(history)
         match == routesSsrMatch(path)
     IN IF match = MatchThrow THEN UNCHANGED <<context, inflight>>
        ELSE IF match = MatchNull
        THEN context' = NullContext /\ UNCHANGED inflight
        ELSE /\ Len(inflight) < MaxInflight
             /\ \E rootContext \in AppContextOutcomes :
                  inflight' = Append(inflight,
                    [kind |-> "rootContext", path |-> path, outcome |-> async(rootContext)])
             /\ UNCHANGED context
  /\ UNCHANGED <<adapter, history, cp2Vars>>
  /\ settled' = NoSettled
  /\ UNCHANGED <<matchVars, dispatchVars, inputVars, documentVars, registryVars, seoVars, urlVars, factoryVars, headVars>>

\* await getRootContext() settles: the page is called with the root
\* context, or the catch block sets the context to null
SettleRootContext ==
  /\ adapter = "routesSsr"
  /\ EffectsFlushed
  /\ \E i \in 1..Len(inflight) :
       /\ inflight[i].kind = "rootContext"
       /\ settled' = Settled("rootContext", inflight[i].path, inflight[i].outcome)
       /\ IF inflight[i].outcome.kind = "returns"
          THEN /\ inflight' = [inflight EXCEPT ![i] =
                                  [kind |-> "page", path |-> inflight[i].path]]
               /\ UNCHANGED context
          ELSE /\ inflight' = RemoveAt(inflight, i)
               /\ context' = NullContext
  /\ UNCHANGED <<adapter, history, effectDeps, cp2Vars>>
  /\ UNCHANGED <<matchVars, dispatchVars, inputVars, documentVars, registryVars, seoVars, urlVars, factoryVars, headVars>>

\* await match.route.page(...) settles in the routes-ssr adapter: the switch
\* over result.type, or the catch block
SettlePageRoutesSsr ==
  /\ adapter = "routesSsr"
  /\ EffectsFlushed
  /\ \E i \in 1..Len(inflight) :
     \E outcome \in Outcomes(SpaRoutesSsrResults(inflight[i].path)) :
       LET inv == inflight[i]
           result == outcome.value
       IN /\ inv.kind = "page"
          /\ inflight' = RemoveAt(inflight, i)
          /\ settled' = Settled("page", inv.path, outcome)
          /\ IF outcome.kind # "returns"
             THEN context' = NullContext /\ UNCHANGED history
             ELSE IF result.type = "redirect"
             THEN history' = navigate(history, result.to, TRUE) /\ UNCHANGED context
             ELSE IF result.type = "ok"
             THEN context' = Exposed(result.routeContext, "none") /\ UNCHANGED history
             ELSE /\ context' = NullContext
                  /\ history' = IF inv.path # StatusPath(result.type)
                                THEN navigate(history, StatusPath(result.type), TRUE)
                                ELSE history
  /\ UNCHANGED <<adapter, effectDeps, cp2Vars>>
  /\ UNCHANGED <<matchVars, dispatchVars, inputVars, documentVars, registryVars, seoVars, urlVars, factoryVars, headVars>>

\* the effect of the page-contract ReactRouterAdapter up to the await of
\* handleSpaNavigation
RunEffectPageContract ==
  /\ adapter \in { "pageContractLegacy", "pageContract" }
  /\ ~EffectsFlushed
  /\ effectDeps' = locationPathname(history)
  /\ LET path == locationPathname(history)
         match == matchRoute(path)
     IN IF match = MatchThrow THEN UNCHANGED <<context, inflight>>
        ELSE IF match = MatchNull
        THEN context' = NullContext /\ UNCHANGED inflight
        ELSE /\ Len(inflight) < MaxInflight
             /\ inflight' = Append(inflight,
                               [kind |-> "page", path |-> path, route |-> match.route])
             /\ UNCHANGED context
  /\ UNCHANGED <<adapter, history, cp2Vars>>
  /\ settled' = NoSettled
  /\ UNCHANGED <<matchVars, dispatchVars, inputVars, documentVars, registryVars, seoVars, urlVars, factoryVars, headVars>>

RECURSIVE navigateAll(_, _)
\* the calls of options.navigate made by handleSpaNavigation, each a
\* navigate(to, {replace: true})
navigateAll(h, effs) ==
  IF effs = << >> THEN h
  ELSE navigateAll(IF Head(effs).fn = "navigate" THEN navigate(h, Head(effs).to, TRUE) ELSE h,
                   Tail(effs))

\* await handleSpaNavigation(...) settles: its navigations happen and
\* setContext(ctx) follows
SettlePageContract ==
  /\ adapter \in { "pageContractLegacy", "pageContract" }
  /\ EffectsFlushed
  /\ \E i \in 1..Len(inflight) :
     \E appContext \in AppContextOutcomes,
        handler \in Outcomes(SpaPageResults(inflight[i].path)) :
       LET inv == inflight[i]
           out == handleSpaNavigation(adapter = "pageContractLegacy", inv.route,
                    [navigate |-> "fn", notFoundPath |-> Default404Path],
                    appContext, handler)
       IN /\ inv.kind = "page"
          /\ inflight' = RemoveAt(inflight, i)
          /\ settled' = Settled("page", inv.path, Returns(out.result))
          /\ history' = navigateAll(history, out.effects)
          /\ context' = IF adapter = "pageContractLegacy"
                        THEN Exposed(out.response.ctx, "none")
                        ELSE Exposed(out.response.ctx, out.response.resultType)
  /\ UNCHANGED <<adapter, effectDeps, cp2Vars>>
  /\ UNCHANGED <<matchVars, dispatchVars, inputVars, documentVars, registryVars, seoVars, urlVars, factoryVars, headVars>>

\* the pending fetches of navigateTo
PendingNavigations(pending) == SelectSeq(pending, LAMBDA inv : inv.kind = "prefetch")

\* navigateTo(u) of contract-page-2 up to its await of fetch, for u among
\* urls and with at most overlap earlier calls still awaiting their fetch
NavigateToCall(urls, overlap) ==
  /\ adapter = "cp2"
  /\ EffectsFlushed
  /\ Len(PendingNavigations(inflight)) <= overlap
  /\ Len(history.entries) < MaxHistory
  /\ Len(inflight) < MaxInflight
  /\ \E u \in urls :
       /\ normalizeUrl(u) # normalizeUrl(locationPathname(history))
       /\ inflight' = Append(inflight, [kind |-> "prefetch", path |-> u])
       /\ lastNavigation' = [url |-> u, state |-> "pending"]
  /\ UNCHANGED <<adapter, history, effectDeps, context, url, isLoading, appContextState,
                 isLoadingAppContext, navigationCache, windowInitialData, windowAppCtx>>
  /\ settled' = NoSettled
  /\ UNCHANGED <<matchVars, dispatchVars, inputVars, documentVars, registryVars, seoVars, urlVars, factoryVars, headVars>>

\* navigateTo(u): the user waits for a navigation to complete before
\* starting the next
NavigateTo == NavigateToCall(NavPaths, 0)

\* navigateTo(u) called while earlier calls may still await their fetch, u
\* possibly carrying a query string
NavigateToConcurrently == NavigateToCall(Cp2NavUrls, MaxPending)

\* the fetch of navigateTo settles: a redirect to another url replaces the
\* current entry, anything else is cached and pushed; the popstate event it
\* dispatches makes onPopState set the url state
SettleNavigateTo ==
  /\ adapter = "cp2"
  /\ EffectsFlushed
  /\ \E i \in 1..Len(inflight) :
     \E outcome \in FetchOutcomes(inflight[i].path) :
       LET inv == inflight[i]
           data == outcome.value.body
       IN /\ inv.kind = "prefetch"
          /\ outcome.kind # "hangs"
          /\ inflight' = RemoveAt(inflight, i)
          /\ settled' = Settled("prefetch", inv.path, outcome)
          /\ IF outcome.kind = "rejects"
             THEN /\ history' = pushState(history, inv.path)
                  /\ UNCHANGED navigationCache
             ELSE IF data.type = "redirect" /\ data.to # inv.path
             THEN /\ navigationCache' = cacheDelete(navigationCache, inv.path)
                  /\ history' = replaceState(history, data.to)
             ELSE /\ navigationCache' = cacheSet(navigationCache, inv.path, data)
                  /\ history' = pushState(history, inv.path)
          /\ url' = locationPathname(history')
          /\ lastNavigation' =
               IF PendingNavigations(inflight') = << >> THEN NoNavigation
               ELSE IF \E j \in (i + 1)..Len(inflight) : inflight[j].kind = "prefetch"
               THEN lastNavigation
               ELSE [lastNavigation EXCEPT
                       !.state = IF history'.at = history.at THEN "replaced" ELSE "pushed"]
  /\ UNCHANGED <<adapter, effectDeps, context, isLoading, appContextState,
                 isLoadingAppContext, windowInitialData, windowAppCtx>>
  /\ UNCHANGED <<matchVars, dispatchVars, inputVars, documentVars, registryVars, seoVars, urlVars, factoryVars, headVars>>

\* the two effects of the AppComponent that depend on url, run in order:
\* the appContext effect, then the pageContext effect. fresh says whether a
\* cached entry is younger than CACHE_TTL; an older entry is never read
\* again and leaves the model's map.
RunEffectsCp2 ==
  /\ adapter = "cp2"
  /\ ~EffectsFlushed
  /\ effectDeps' = url
  /\ \E fresh \in BOOLEAN, provider \in { Returns(appCtxOf(url)), Rejects("ctxFail") } :
       LET loc == locationPathname(history)
           isNotFound == cp2PageOf(url) = 0
           hasInitialAppContext == url = loc /\ windowAppCtx # Undefined
           hasInitialData == windowInitialData # UndefinedData
           hydration == hasInitialAppContext /\ (hasInitialData \/ isNotFound)
           started == IF hydration THEN << >>
                      ELSE << [kind |-> "appContext", path |-> url, outcome |-> provider] >>
           initial == windowInitialData \notin {UndefinedData, NullData} /\ url = loc
           cachedEntries == { e \in navigationCache : e.url = url }
           cached == cachedEntries # { } /\ fresh
           data == IF initial THEN windowInitialData
                   ELSE (CHOOSE e \in cachedEntries : TRUE).data
       IN /\ windowAppCtx' = IF hydration THEN Undefined ELSE windowAppCtx
          /\ isLoadingAppContext' = IF hydration THEN isLoadingAppContext ELSE TRUE
          /\ UNCHANGED appContextState
          /\ IF initial
             THEN /\ windowInitialData' = UndefinedData
                  /\ inflight' = inflight \o started
                  /\ UNCHANGED <<navigationCache, isLoading>>
                  /\ IF data.type = "redirect"
                     THEN /\ UNCHANGED context
                          /\ IF data.to # url
                             THEN history' = replaceState(history, data.to) /\ url' = data.to
                             ELSE UNCHANGED <<history, url>>
                     ELSE context' = data /\ UNCHANGED <<history, url>>
             ELSE IF cached
             THEN /\ navigationCache' = cacheDelete(navigationCache, url)
                  /\ inflight' = inflight \o started
                  /\ UNCHANGED windowInitialData
                  /\ IF data.type = "redirect" /\ data.to # url
                     THEN /\ history' = replaceState(history, data.to)
                          /\ url' = data.to
                          /\ UNCHANGED <<context, isLoading>>
                     ELSE /\ context' = data
                          /\ isLoading' = FALSE
                          /\ UNCHANGED <<history, url>>
             ELSE /\ context' = NullData
                  /\ isLoading' = TRUE
                  /\ inflight' = inflight \o started
                                   \o << [kind |-> "fetch", path |-> url] >>
                  /\ navigationCache' = cacheDelete(navigationCache, url)
                  /\ UNCHANGED <<windowInitialData, history, url>>
          /\ Len(inflight') <= MaxInflight
  /\ UNCHANGED <<adapter, lastNavigation>>
  /\ settled' = NoSettled
  /\ UNCHANGED <<matchVars, dispatchVars, inputVars, documentVars, registryVars, seoVars, urlVars, factoryVars, headVars>>

\* the promise of getAppContext settles in the appContext effect
SettleAppContext ==
  /\ adapter = "cp2"
  /\ EffectsFlushed
  /\ \E i \in 1..Len(inflight) :
       /\ inflight[i].kind = "appContext"
       /\ inflight' = RemoveAt(inflight, i)
       /\ settled' = Settled("appContext", inflight[i].path, inflight[i].outcome)
       /\ appContextState' = IF inflight[i].outcome.kind = "returns"
                             THEN inflight[i].outcome.value ELSE appContextState
  /\ isLoadingAppContext' = FALSE
  /\ UNCHANGED <<adapter, history, effectDeps, context, url, isLoading,
                 navigationCache, windowInitialData, windowAppCtx, lastNavigation>>
  /\ UNCHANGED <<matchVars, dispatchVars, inputVars, documentVars, registryVars, seoVars, urlVars, factoryVars, headVars>>

\* the fetch of the pageContext effect settles: the two then callbacks, or
\* the catch
SettleFetch ==
  /\ adapter = "cp2"
  /\ EffectsFlushed
  /\ \E i \in 1..Len(inflight) :
     \E outcome \in FetchOutcomes(inflight[i].path) :
       LET inv == inflight[i]
           res == outcome.value
           data == res.body
       IN /\ inv.kind = "fetch"
          /\ outcome.kind # "hangs"
          /\ inflight' = RemoveAt(inflight, i)
          /\ settled' = Settled("fetch", inv.path, outcome)
          /\ isLoading' = FALSE
          /\ IF outcome.kind = "rejects"
             THEN context' = [type |-> "error", error |-> outcome.error]
                  /\ UNCHANGED <<history, url>>
             ELSE IF res.status \in {301, 302} /\ res.location # NoHeader
             THEN /\ history' = replaceState(history, res.location)
                  /\ url' = res.location
                  /\ UNCHANGED context
             ELSE IF data.type = "redirect"
             THEN /\ UNCHANGED context
                  /\ IF data.to # inv.path
                     THEN history' = replaceState(history, data.to) /\ url' = data.to
                     ELSE UNCHANGED <<history, url>>
             ELSE context' = data /\ UNCHANGED <<history, url>>
  /\ UNCHANGED <<adapter, effectDeps, appContextState, isLoadingAppContext,
                 navigationCache, windowInitialData, windowAppCtx, lastNavigation>>
  /\ UNCHANGED <<matchVars, dispatchVars, inputVars, documentVars, registryVars, seoVars, urlVars, factoryVars, headVars>>

NextSpa ==
  \/ NavigateLink
  \/ Back
  \/ RunEffectRoutesSsr
  \/ SettleRootContext
  \/ SettlePageRoutesSsr
  \/ RunEffectPageContract
  \/ SettlePageContract
  \/ NavigateTo
  \/ SettleNavigateTo
  \/ RunEffectsCp2
  \/ SettleAppContext
  \/ SettleFetch

SpecSpa == InitSpa /\ [][NextSpa]_vars

\* the AppComponent of contract-page-2 with overlapping navigateTo calls and
\* urls that carry a query string
InitCp2 == InitSpa /\ adapter = "cp2"

NextCp2 ==
  \/ NavigateToConcurrently
  \/ SettleNavigateTo
  \/ RunEffectsCp2
  \/ SettleAppContext
  \/ SettleFetch
  \/ Back

SpecCp2 == InitCp2 /\ [][NextCp2]_vars

\* ------------------------------------------------------------------------
\* PageInput: a first load and a navigation build the input for one url
\* ------------------------------------------------------------------------
InitInput ==
  /\ MatchIdle /\ DispatchIdle /\ SpaIdle /\ DocumentIdle /\ RegistryIdle /\ SeoIdle /\ UrlIdle /\ FactoryIdle /\ HeadIdle
  /\ inputUrl \in InputUrls
  /\ searchParamsForm \in SearchParamsForms
  /\ ssrInput = NoInput
  /\ spaInput = NoInput

\* handleSsrRequestFetch builds the PageInput of the request for the url
BuildSsrInput ==
  /\ ssrInput = NoInput
  /\ ssrInput' = ssrPageInput(inputUrl.pathname \o inputUrl.search)
  /\ UNCHANGED <<inputUrl, searchParamsForm, spaInput>>
  /\ UNCHANGED <<matchVars, dispatchVars, spaVars, documentVars, registryVars, seoVars, urlVars, factoryVars, headVars>>

\* routes.handleSpaNavigation builds the PageInput of the location
BuildSpaInput ==
  /\ spaInput = NoInput
  /\ spaInput' = spaPageInput(inputUrl.pathname, inputUrl.search, searchParamsForm)
  /\ UNCHANGED <<inputUrl, searchParamsForm, ssrInput>>
  /\ UNCHANGED <<matchVars, dispatchVars, spaVars, documentVars, registryVars, seoVars, urlVars, factoryVars, headVars>>

NextInput ==
  \/ BuildSsrInput
  \/ BuildSpaInput

SpecInput == InitInput /\ [][NextInput]_vars

\* ------------------------------------------------------------------------
\* Document: an SSR dispatcher composes the document of an ok result
\* ------------------------------------------------------------------------
InitDocument ==
  /\ MatchIdle /\ DispatchIdle /\ SpaIdle /\ InputIdle /\ RegistryIdle /\ SeoIdle /\ UrlIdle /\ FactoryIdle /\ HeadIdle
  /\ composer = "none"
  /\ docInput \in DocInputs
  /\ document = NoDocument

\* composer has composed doc
Composed(name, doc) ==
  /\ composer = "none"
  /\ composer' = name
  /\ document' = doc
  /\ UNCHANGED docInput
  /\ UNCHANGED <<matchVars, dispatchVars, spaVars, inputVars, registryVars, seoVars, urlVars, factoryVars, headVars>>

\* the handler of createHandleRequest with the default template
ComposeCreateHandleRequest ==
  Composed("createHandleRequest",
           renderHtmlWithRequest(docInput.ctx, docInput.seo, docInput.clientEntry))

\* the routes-ssr handleRequest in production
ComposeRoutesSsr ==
  Composed("routesSsrHandleRequest", routesSsrDocument(docInput.ctx, docInput.seo))

\* the SSR endpoint of contract-page-2
ComposeCp2 ==
  Composed("cp2SsrEndpoint", cp2Document(docInput.ctx, docInput.appContext))

NextDocument ==
  \/ ComposeCreateHandleRequest
  \/ ComposeRoutesSsr
  \/ ComposeCp2

SpecDocument == InitDocument /\ [][NextDocument]_vars

\* ------------------------------------------------------------------------
\* Registry: routes are declared, the registry is built, a pathname is matched
\* ------------------------------------------------------------------------
InitRegistry ==
  /\ MatchIdle /\ DispatchIdle /\ SpaIdle /\ InputIdle /\ DocumentIdle /\ SeoIdle /\ UrlIdle /\ FactoryIdle /\ HeadIdle
  /\ declared \in Declarations
  /\ registry = NoRegistry
  /\ lookupPath \in LookupPaths
  /\ found = Pending

\* createRoutes of page-contract builds its routeMap
CreateRoutes ==
  /\ registry = NoRegistry
  /\ registry' = [kind |-> "createRoutes", routes |-> createRoutes(declared)]
  /\ UNCHANGED <<declared, lookupPath, found>>
  /\ UNCHANGED <<matchVars, dispatchVars, spaVars, inputVars, documentVars, seoVars, urlVars, factoryVars, headVars>>

\* initContract of contract-page-2 and one definePage per declared page
InitContract ==
  /\ registry = NoRegistry
  /\ registry' = [kind |-> "initContract", routes |-> initContractPages(declared)]
  /\ UNCHANGED <<declared, lookupPath, found>>
  /\ UNCHANGED <<matchVars, dispatchVars, spaVars, inputVars, documentVars, seoVars, urlVars, factoryVars, headVars>>

\* matchRoute(pathname) of the registry that was built
MatchRoute ==
  /\ registry # NoRegistry
  /\ found = Pending
  /\ found' = IF registry.kind = "createRoutes"
              THEN matchRouteFrom(registry.routes, 1, lookupPath)
              ELSE matchRoutePagesFrom(registry.routes, 1, lookupPath)
  /\ UNCHANGED <<declared, registry, lookupPath>>
  /\ UNCHANGED <<matchVars, dispatchVars, spaVars, inputVars, documentVars, seoVars, urlVars, factoryVars, headVars>>

NextRegistry ==
  \/ CreateRoutes
  \/ InitContract
  \/ MatchRoute

SpecRegistry == InitRegistry /\ [][NextRegistry]_vars

\* ------------------------------------------------------------------------
\* routes-dsl: a route is created and its seo is read
\* ------------------------------------------------------------------------
InitSeo ==
  /\ MatchIdle /\ DispatchIdle /\ SpaIdle /\ InputIdle /\ DocumentIdle /\ RegistryIdle
  /\ SeoIdle /\ UrlIdle /\ FactoryIdle /\ HeadIdle

\* createRoute(name, definition)
CreateRoute ==
  /\ routeDefinition = NoDefinition
  /\ routeDefinition' \in RouteDefinitions
  /\ UNCHANGED <<seoParams, descriptor, descriptorAgain>>
  /\ UNCHANGED <<matchVars, dispatchVars, spaVars, inputVars, documentVars, registryVars, urlVars, factoryVars, headVars>>

\* route.seo(params)
Seo ==
  /\ routeDefinition # NoDefinition
  /\ descriptor = NoDescriptor
  /\ \E params \in SeoParams :
       /\ seoParams' = params
       /\ descriptor' = seoCall(routeDefinition, params).descriptor
       /\ routeDefinition' = seoCall(routeDefinition, params).definition
  /\ UNCHANGED descriptorAgain
  /\ UNCHANGED <<matchVars, dispatchVars, spaVars, inputVars, documentVars, registryVars, urlVars, factoryVars, headVars>>

\* route.seo(params) once more, with the same params
SeoAgain ==
  /\ descriptor # NoDescriptor
  /\ descriptorAgain = NoDescriptor
  /\ descriptorAgain' = seoCall(routeDefinition, seoParams).descriptor
  /\ routeDefinition' = seoCall(routeDefinition, seoParams).definition
  /\ UNCHANGED <<seoParams, descriptor>>
  /\ UNCHANGED <<matchVars, dispatchVars, spaVars, inputVars, documentVars, registryVars, urlVars, factoryVars, headVars>>

NextSeo ==
  \/ CreateRoute
  \/ Seo
  \/ SeoAgain

SpecSeo == InitSeo /\ [][NextSeo]_vars

\* ------------------------------------------------------------------------
\* routes-dsl: the url of a route is generated
\* ------------------------------------------------------------------------
InitUrl ==
  /\ MatchIdle /\ DispatchIdle /\ SpaIdle /\ InputIdle /\ DocumentIdle /\ RegistryIdle
  /\ SeoIdle /\ FactoryIdle /\ HeadIdle
  /\ urlPattern \in { PathOf(s) : s \in SeqsUpTo(UrlPatternSegs, MaxSegs) }
  /\ urlParams \in UrlParams
  /\ generatedUrl = NoUrl

\* route.url(params)
Url ==
  /\ generatedUrl = NoUrl
  /\ generatedUrl' = routeUrl(urlPattern, urlParams)
  /\ UNCHANGED <<urlPattern, urlParams>>
  /\ UNCHANGED <<matchVars, dispatchVars, spaVars, inputVars, documentVars, registryVars, seoVars, factoryVars, headVars>>

NextUrl == Url

SpecUrl == InitUrl /\ [][NextUrl]_vars

\* ------------------------------------------------------------------------
\* routes-dsl: a routes object is built and its views are read
\* ------------------------------------------------------------------------
InitFactory ==
  /\ MatchIdle /\ DispatchIdle /\ SpaIdle /\ InputIdle /\ DocumentIdle /\ RegistryIdle
  /\ SeoIdle /\ UrlIdle /\ HeadIdle
  /\ definitions \in WrittenDefinitions
  /\ routeList = NotBuilt
  /\ sitemap = NotCalled
  /\ seoManifest = NotCalled

\* createRoutesFactory(config)(definitions)
CreateRoutesFactory ==
  /\ ~routeList.built
  /\ routeList' = [built |-> TRUE, routes |-> createRoutesFactory(definitions)]
  /\ UNCHANGED <<definitions, sitemap, seoManifest>>
  /\ UNCHANGED <<matchVars, dispatchVars, spaVars, inputVars, documentVars, registryVars, seoVars, urlVars, headVars>>

\* routes._sitemap()
Sitemap ==
  /\ routeList.built
  /\ ~sitemap.called
  /\ sitemap' = [called |-> TRUE, entries |-> sitemapOf(routeList.routes)]
  /\ UNCHANGED <<definitions, routeList, seoManifest>>
  /\ UNCHANGED <<matchVars, dispatchVars, spaVars, inputVars, documentVars, registryVars, seoVars, urlVars, headVars>>

\* routes._seoManifest()
SeoManifest ==
  /\ routeList.built
  /\ ~seoManifest.called
  /\ seoManifest' = [called |-> TRUE, entries |-> seoManifestOf(routeList.routes)]
  /\ UNCHANGED <<definitions, routeList, sitemap>>
  /\ UNCHANGED <<matchVars, dispatchVars, spaVars, inputVars, documentVars, registryVars, seoVars, urlVars, headVars>>

NextFactory ==
  \/ CreateRoutesFactory
  \/ Sitemap
  \/ SeoManifest

SpecFactory == InitFactory /\ [][NextFactory]_vars

\* ------------------------------------------------------------------------
\* The document head across SPA navigations
\* ------------------------------------------------------------------------
InitHead ==
  /\ MatchIdle /\ DispatchIdle /\ SpaIdle /\ InputIdle /\ DocumentIdle /\ RegistryIdle
  /\ SeoIdle /\ UrlIdle /\ FactoryIdle
  /\ documentHead = InitialHead
  /\ handledResult = NoResult

\* handleSpaNavigation handles the result of the page of a navigation: its
\* updateSeoMetadata calls write the document
HandleSpaNavigationInBrowser ==
  /\ \E result \in HeadResults :
       /\ documentHead' = runDocumentEffects(documentHead,
                            spaEffects(FALSE, result, [navigate |-> "fn"]).effects)
       /\ handledResult' = result
  /\ UNCHANGED <<matchVars, dispatchVars, spaVars, inputVars, documentVars, registryVars, seoVars, urlVars, factoryVars>>

NextHead == HandleSpaNavigationInBrowser

SpecHead == InitHead /\ [][NextHead]_vars


\* ------------------------------------------------------------------------
\* Properties of the matcher
\* ------------------------------------------------------------------------
\* the non-empty "/"-separated segments of a pattern or pathname
Segments(s) == filterBoolean(split(s, "/"))

\* a named (":name") segment of a pattern, and the text after its colon
IsNamed(seg) == startsWith(seg, ":")
NameOf(seg) == slice1(seg)

\* a named segment carrying the optional marker (":name?")
IsOptional(seg) == IsNamed(seg) /\ Len(seg) >= 2 /\ seg[Len(seg)] = "?"

\* same number of segments, and every literal segment of P equals the
\* pathname segment at its position
SegmentwiseEqual(P, u) ==
  LET ps == Segments(P)
      us == Segments(u)
  IN /\ Len(ps) = Len(us)
     /\ \A i \in 1..Len(ps) : ~IsNamed(ps[i]) => ps[i] = us[i]

\* positions of the named segments of P
NamedPositions(P) == { i \in 1..Len(Segments(P)) : IsNamed(Segments(P)[i]) }

\* C9 as stated: match(P, pathname) succeeds iff P and pathname have the same
\* number of non-empty segments and every literal segment of P equals the
\* pathname segment at its position; on success the params have exactly the
\* named segments of P as keys, each bound to the pathname segment at its
\* position; otherwise the result is null.
C9_AsStated ==
  matched # Pending =>
    LET ps == Segments(pattern)
        us == Segments(pathname)
    IN IF SegmentwiseEqual(pattern, pathname)
       THEN /\ matched.type = "params"
            /\ DOMAIN matched.params = { NameOf(ps[i]) : i \in NamedPositions(pattern) }
            /\ \A i \in NamedPositions(pattern) : matched.params[NameOf(ps[i])] = us[i]
       ELSE matched = MatchNull

\* position i stops the match: a named segment facing a malformed escape
\* sequence, or a literal segment facing a different pathname segment
Stops(ps, us, i) ==
  IF IsNamed(ps[i]) THEN decodeURIComponent(us[i]) = URIError ELSE ps[i] # us[i]

\* the last position of P that carries the name of position i
LastPositionOf(ps, i) ==
  CHOOSE k \in 1..Len(ps) :
    /\ IsNamed(ps[k]) /\ NameOf(ps[k]) = NameOf(ps[i])
    /\ \A j \in (k + 1)..Len(ps) : ~(IsNamed(ps[j]) /\ NameOf(ps[j]) = NameOf(ps[i]))

\* C9 as amended: with different segment counts the result is null. With equal
\* counts the segments are taken left to right: the first literal segment that
\* differs from the pathname segment gives null, the first named segment that
\* faces a malformed percent escape makes the match throw URIError; when no
\* position stops the match the params have as keys exactly the texts after
\* the colon of P's named segments, each bound to the URL-decoded pathname
\* segment at the last position carrying that name.
C9_MatchCharacterised ==
  matched # Pending =>
    LET ps == Segments(pattern)
        us == Segments(pathname)
        stops == { i \in 1..Len(ps) : Stops(ps, us, i) }
    IN IF Len(ps) # Len(us) THEN matched = MatchNull
       ELSE IF stops # {}
       THEN LET k == CHOOSE i \in stops : \A j \in stops : i <= j
            IN matched = IF IsNamed(ps[k]) THEN MatchThrow ELSE MatchNull
       ELSE /\ matched.type = "params"
            /\ DOMAIN matched.params = { NameOf(ps[i]) : i \in NamedPositions(pattern) }
            /\ \A i \in NamedPositions(pattern) :
                 matched.params[NameOf(ps[i])] = decodeURIComponent(us[LastPositionOf(ps, i)])

\* C9 witness: a match succeeded and bound a named segment to a decoded value
\* that differs from the raw pathname segment
C9_Witness ==
  /\ matched # Pending
  /\ matched.type = "params"
  /\ \E i \in NamedPositions(pattern) :
       /\ matched.params[NameOf(Segments(pattern)[i])] = <<"A">>
       /\ Segments(pathname)[i] = <<"%", "4", "1">>

\* C10: for every pattern whose last segment is optional (":name?"), a
\* pathname exactly one segment shorter that agrees on all preceding segments
\* matches, and the optional key is absent from the params.
C10_OptionalTrailing ==
  LET ps == Segments(pattern)
      us == Segments(pathname)
  IN ( /\ matched # Pending
       /\ Len(ps) >= 1
       /\ IsOptional(ps[Len(ps)])
       /\ Len(us) = Len(ps) - 1
       /\ \A i \in 1..Len(us) :
            IF IsNamed(ps[i]) THEN decodeURIComponent(us[i]) # URIError
            ELSE ps[i] = us[i] )
     => /\ matched.type = "params"
        /\ NameOf(ps[Len(ps)]) \notin DOMAIN matched.params

\* ------------------------------------------------------------------------
\* Properties of the dispatchers
\* ------------------------------------------------------------------------
\* the dispatchers that run the page through runPage
RunPageDispatchers ==
  { "handleSsrRequestFetch", "handleSsrRequest", "createHandleRequest", "handleSpaNavigation" }

\* the SSR dispatchers that match the request pathname themselves
MatchingSsrDispatchers == { "createHandleRequest", "routesSsrHandleRequest", "cp2SsrEndpoint" }

\* the handler of a page was called for the request
HandlerCalled == \E i \in 1..Len(calls) : calls[i].fn = "handler"

\* the page function was called and failed (the handler threw or rejected,
\* or the app-context provider inside the page function did)
PageFailed ==
  \/ HandlerCalled /\ request.handler.kind # "returns"
  \/ ~HandlerCalled /\ calls # << >> /\ request.appContext.kind # "returns"

\* the value the failing page function threw or rejected with
ThrownValue == IF HandlerCalled THEN request.handler.error ELSE request.appContext.error

\* C2: for every page function that throws synchronously or returns a
\* rejecting promise, runPage resolves with {type: 'error', error: the thrown
\* value, status: 500} and the dispatcher built on it takes its error branch
\* (SSR: a response with status 500 and the error body; SPA: navigate to the
\* error path and no context); no rejection escapes the dispatcher.
C2_PageFailureBecomesError ==
  (dispatcher \in RunPageDispatchers /\ PageFailed) =>
    /\ pageResult = [type |-> "error", error |-> ThrownValue, status |-> 500]
    /\ response.kind # "rejected"
    /\ IF dispatcher = "handleSpaNavigation"
       THEN effects = << Navigate(ErrorPath) >> /\ response = Returned("null", "error")
       ELSE /\ response.kind = "response"
            /\ response.status = 500
            /\ response.body \in {HookOutput("renderError"), ErrorHtml(pageResult), ErrorText(pageResult)}

\* C2 witness: a handler that threw synchronously under handleSsrRequestFetch
\* was answered with status 500
C2_Witness ==
  /\ dispatcher = "handleSsrRequestFetch"
  /\ HandlerCalled
  /\ request.handler = Throws("boom")
  /\ response.kind = "response"
  /\ response.status = 500

\* no route (page) of the dispatcher's registry matches the request pathname
NoRouteMatches ==
  IF dispatcher = "cp2SsrEndpoint"
  THEN \A k \in 1..Len(Cp2Pages) : ~SegmentwiseEqual(Cp2Pages[k].path, PathnameOf(request.url))
  ELSE \A k \in 1..Len(RoutesConfig) :
         ~SegmentwiseEqual(RoutesConfig[k].path, PathnameOf(request.url))

\* C3: when no registered route matches the request pathname, the SSR
\* dispatcher responds with status 404 and no page function is invoked.
C3_UnmatchedIs404 ==
  (dispatcher \in MatchingSsrDispatchers /\ NoRouteMatches) =>
    /\ response.kind = "response"
    /\ response.status = 404
    /\ ~HandlerCalled

\* the status the claimed mapping gives a page result (0: no claim)
ClaimedStatus(result) ==
  CASE result.type = "ok" -> statusNullish(result, 200)
    [] result.type = "redirect" -> statusNullish(result, 302)
    [] result.type \in {"not-found", "notFound"} -> 404
    [] result.type = "error" -> statusNullish(result, 500)
    [] result.type = "forbidden" -> 403
    [] result.type = "unauthorized" -> 401
    [] result.type = "gone" -> 410
    [] result.type = "unavailableForLegalReasons" -> 451
    [] OTHER -> 0

\* the SSR dispatchers
SsrDispatchers ==
  { "handleSsrRequestFetch", "handleSsrRequest", "createHandleRequest",
    "routesSsrHandleRequest", "cp2SsrEndpoint" }

PageSettles == settled' # NoSettled /\ settled'.kind \in {"rootContext", "page", "fetch"}

\* C1: last-pathname-wins. When the continuation of the invocation (or
\* page-data fetch) started for a pathname runs after another pathname has
\* become current, it leaves the exposed route/page context as it is,
\* whatever the order in which invocations resolve.
C1_LastPathnameWins ==
  [][(PageSettles /\ settled'.path # CurrentDeps) => context' = context]_vars

\* the result the settled invocation resolved with is a redirect
RedirectSettles ==
  /\ settled' # NoSettled
  /\ settled'.kind \in {"page", "fetch", "prefetch"}
  /\ settled'.outcome.kind = "returns"
  /\ IF adapter = "cp2"
     THEN settled'.outcome.value.body.type = "redirect"
     ELSE settled'.outcome.value.type = "redirect"

\* the target of the redirect the settled invocation resolved with
RedirectTarget ==
  IF adapter = "cp2" THEN settled'.outcome.value.body.to ELSE settled'.outcome.value.to

\* history after the step is history before it with the current entry
\* overwritten by path: no entry added, none removed, same index
ReplacedBy(path) ==
  /\ history'.at = history.at
  /\ Len(history'.entries) = Len(history.entries)
  /\ \A k \in 1..Len(history.entries) :
       history'.entries[k] = IF k = history.at THEN path ELSE history.entries[k]

PageViewShown ==
  /\ adapter = "cp2"
  /\ cp2PageOf(url) # 0
  /\ appContextState # Undefined /\ ~isLoadingAppContext
  /\ ~isLoading
  /\ context # NullData

\* the provider of the root (app) context failed in the step
ProviderFails ==
  /\ settled' # NoSettled
  /\ settled'.kind \in {"rootContext", "appContext"}
  /\ settled'.outcome.kind # "returns"

\* C6: when the root-context (app-context) provider throws or rejects, no
\* page handler is invoked for it and the adapter yields an error outcome
\* (no context exposed); it never proceeds to show the page with a default,
\* absent or previously derived context.
C6_ProviderFailureStops ==
  [][ProviderFails =>
       /\ Len(inflight') < Len(inflight)
       /\ adapter = "routesSsr" => context' = NullContext
       /\ (adapter = "cp2" /\ settled'.path = url') => ~PageViewShown']_vars

\* ------------------------------------------------------------------------
\* Properties of the PageInput
\* ------------------------------------------------------------------------
\* C7: for the same url matched to the same route, the PageInput built by
\* the SSR dispatcher and the PageInput built by the SPA dispatcher carry
\* equal params and equal query maps, also when a query key occurs more
\* than once.
C7_SameBusinessInput ==
  (ssrInput.state = "built" /\ spaInput.state = "built")
    => /\ ssrInput.params = spaInput.params
       /\ ssrInput.query = spaInput.query

\* ------------------------------------------------------------------------
\* Properties of the composed document
\* ------------------------------------------------------------------------
\* the statement prefixes that open the script exposing the serialized context
ContextGlobals == { "window.__ROUTE_CONTEXT__ = ", "window.__INITIAL_DATA__ = " }

\* where the script that exposes the context starts in doc
contextScriptStart(doc) ==
  CHOOSE i \in 1..(Len(doc) - 1) : doc[i] = "<script>" /\ doc[i + 1] \in ContextGlobals

\* the pieces of that script's content, up to the first "</script>" after its start
contextScript(doc) ==
  LET start == contextScriptStart(doc)
      end == CHOOSE j \in (start + 1)..Len(doc) :
               doc[j] = "</script>" /\ \A k \in (start + 1)..(j - 1) : doc[k] # "</script>"
  IN SubSeq(doc, start + 1, end - 1)

\* the piece holds a raw "<"
rawLt(piece) == piece = "<" \/ piece \in Markup

\* C8: in every document composed by an SSR dispatcher for an ok result, the
\* script that exposes the serialized context to the client contains no raw
\* "<", for every context value (strings with "<", "</script>" or
\* "$"-sequences included).
C8_NoRawLtInContextScript ==
  document # NoDocument =>
    \A i \in 1..Len(contextScript(document)) : ~rawLt(contextScript(document)[i])

\* ------------------------------------------------------------------------
\* Properties of optional segments
\* ------------------------------------------------------------------------
\* the name of an optional segment ":name?": the text between ":" and "?"
OptionalNameOf(seg) == SubSeq(seg, 2, Len(seg) - 1)

\* C11: when a pathname supplies a value for an optional pattern segment
\* ":name?", the match binds the value under the key name, without the "?".
C11_OptionalKeyUnmarked ==
  (matched # Pending /\ matched.type = "params") =>
    \A i \in 1..Len(Segments(pattern)) :
      IsOptional(Segments(pattern)[i]) =>
        OptionalNameOf(Segments(pattern)[i]) \in DOMAIN matched.params

\* ------------------------------------------------------------------------
\* Properties of the registry
\* ------------------------------------------------------------------------
\* the declared routes whose pattern matches the pathname looked up
MatchingDeclared ==
  { i \in 1..Len(declared) : matchPath(declared[i].path, lookupPath).type = "params" }

\* C12: when several registered routes match the same pathname, the
\* registry's match returns the route that was declared first, for every set
\* of route names and patterns.
C12_FirstRegisteredWins ==
  (found # Pending /\ MatchingDeclared # {}) =>
    /\ found.type = "match"
    /\ \E i \in MatchingDeclared :
         /\ \A j \in MatchingDeclared : i <= j
         /\ found.key = declared[i].key

\* ------------------------------------------------------------------------
\* Properties of the SSR responses
\* ------------------------------------------------------------------------
\* the statuses of a redirect
RedirectStatuses == {301, 302, 307, 308}

\* C13: every redirect response produced by an SSR dispatcher has a status
\* in {301, 302, 307, 308}, for every redirect result a page function can
\* return.
C13_RedirectStatusInSet ==
  (dispatcher \in SsrDispatchers /\ pageResult # NoResult /\ pageResult.type = "redirect") =>
    /\ response.kind = "response"
    /\ response.status \in RedirectStatuses

\* ------------------------------------------------------------------------
\* Properties of the SPA dispatcher
\* ------------------------------------------------------------------------
\* C14: when no registered route matches the pathname during SPA navigation,
\* the SPA dispatcher exposes a null context, invokes no page function (nor
\* the app-context provider) and issues no navigation of its own.
C14_UnmatchedSpaIsInert ==
  (dispatcher = "routesHandleSpaNavigation" /\ NoRouteMatches) =>
    /\ response = NoMatchReturned
    /\ calls = << >>
    /\ effects = << >>

\* C14 witness: routes.handleSpaNavigation was called for /q, which no route
\* matches, and returned the null context
C14_Witness ==
  /\ dispatcher = "routesHandleSpaNavigation"
  /\ request.url = <<"/", "q">>
  /\ response = NoMatchReturned

\* no route of the registry matches path
Unmatched(path) ==
  \A k \in 1..Len(RoutesConfig) : ~SegmentwiseEqual(RoutesConfig[k].path, path)

\* the ReactRouterAdapter components: when their effect runs for a pathname
\* no route matches, it exposes the null context, starts no invocation and
\* leaves the history alone
UnmatchedEffectIsInert ==
  [][(adapter \in RouterAdapters /\ effectDeps' # effectDeps /\ Unmatched(effectDeps'))
       => /\ context' = NullContext
          /\ inflight' = inflight
          /\ history' = history]_vars


\* the dispatchers of SPA navigation
SpaDispatchers == {"handleSpaNavigation", "routesHandleSpaNavigation"}

\* the calls of options.navigate among the effects
Navigations == { i \in 1..Len(effects) : effects[i].fn = "navigate" }

\* C15: on a not-found result the SPA dispatcher navigates to the configured
\* not-found path if and only if the notFoundPath option is provided; when it
\* is absent the dispatcher issues no navigation and exposes the fallback
\* context of the result.
C15_NotFoundNavigatesIffConfigured ==
  (dispatcher \in SpaDispatchers /\ pageResult # NoResult /\ pageResult.type = "not-found") =>
    IF "notFoundPath" \in DOMAIN request.options
    THEN \E i \in Navigations : effects[i] = Navigate(request.options.notFoundPath)
    ELSE /\ Navigations = {}
         /\ response = Returned(notFoundCtx(pageResult), "not-found")


\* the page result is a not-found or an error result
NotFoundOrError ==
  pageResult # NoResult /\ pageResult.type \in {"not-found", "notFound", "error"}

\* the adapter was called without any render hook
NoHookSupplied ==
  /\ dispatcher \in {"handleSsrRequestFetch", "handleSsrRequest"}
  /\ request.options = [renderHtml |-> FALSE, render404 |-> FALSE, renderError |-> FALSE]

\* body carries the built-in text: "Not Found", or "Error" with the status or
\* the message
IsBuiltInFallback(body) ==
  \/ \E i \in 1..Len(body) : body[i] = "404 Not Found"
  \/ /\ pageResult.type = "error"
     /\ body \in {ErrorHtml(pageResult), ErrorText(pageResult)}

Cp2Endpoints == {"cp2ApiPage", "cp2SsrEndpoint"}

\* a page of contract-page-2 matches the request and its page function or
\* the app-context provider called for it throws or rejects
Cp2PageOrProviderFails ==
  /\ request.url # << >>
  /\ \E k \in 1..Len(Cp2Pages) : SegmentwiseEqual(Cp2Pages[k].path, PathnameOf(request.url))
  /\ \/ request.hasAppContext /\ request.appContext.kind # "returns"
     \/ request.handler.kind # "returns"

\* C17: on the contract-page-2 server, when the matched page function or the
\* app-context provider throws or rejects, both /api/page and the SSR
\* endpoint answer the request with status 500; the request is never left
\* unanswered and no rejection escapes the route handler.
C17_Cp2FailureIs500 ==
  (dispatcher \in Cp2Endpoints /\ Cp2PageOrProviderFails) =>
    /\ response.kind = "response"
    /\ response.status = 500


\* ------------------------------------------------------------------------
\* Properties of the SEO descriptor
\* ------------------------------------------------------------------------
\* seo(params) was called for a route created with a seo config
SeoResolved == descriptor # NoDescriptor /\ "seo" \in DOMAIN routeDefinition

\* the seo config of the route is redirect-classified
RedirectClassified == "redirect" \in DOMAIN routeDefinition.seo

\* the target the config's redirect gives for the params: the string, or
\* what the function returns
SeoRedirectTo ==
  LET to == routeDefinition.seo.redirect.to
  IN IF to.kind = "function"
     THEN IF to.value \in DOMAIN seoParams THEN seoParams[to.value] ELSE Undefined
     ELSE to.value

\* C18: for a route whose SEO config is redirect-classified, seo(params)
\* returns exactly {title: route name, description: '', indexable: false,
\* robots: {index: false, follow: false}, redirect: {to, status}} with status
\* defaulting to 301; og, twitter, canonical and meta are absent, for every
\* params value and whatever other fields the config carries.
C18_RedirectDescriptorExact ==
  (SeoResolved /\ RedirectClassified) =>
    /\ descriptor =
         [title |-> routeDefinition.name, description |-> "", indexable |-> FALSE,
          robots |-> [index |-> FALSE, follow |-> FALSE],
          redirect |-> [to |-> SeoRedirectTo,
                        status |-> IF "status" \in DOMAIN routeDefinition.seo.redirect
                                   THEN routeDefinition.seo.redirect.status ELSE 301]]
    /\ DOMAIN descriptor \cap {"og", "twitter", "canonical", "meta"} = {}

\* C18 witness: a config with a redirect without status, and with a title,
\* indexable, robots, og, twitter, canonical and meta, was resolved to a
\* descriptor with status 301
C18_Witness ==
  /\ SeoResolved
  /\ RedirectClassified
  /\ {"title", "indexable", "robots", "og", "twitter", "canonical", "meta"}
       \subseteq DOMAIN routeDefinition.seo
  /\ "status" \notin DOMAIN routeDefinition.seo.redirect
  /\ seoParams = [id |-> "7"]
  /\ descriptor.redirect.status = 301


\* the sub-objects with defaults, and the default of each of their fields
\* as documented: the resolved title and description, og.type, twitter.card
SubObjectDefaults ==
  [og |-> [title |-> descriptor.title, description |-> descriptor.description,
           type |-> "website"],
   twitter |-> [card |-> "summary", title |-> descriptor.title,
                description |-> descriptor.description]]

\* C19: when the SEO config has an og (or twitter) sub-object, every
\* sub-field with a documented default that the config leaves out is filled
\* from that default (og.title is the resolved title, likewise
\* og.description and twitter.title/description); when the sub-object is
\* absent it is omitted from the descriptor.
C19_SubObjectDefaultsFilled ==
  (SeoResolved /\ ~RedirectClassified) =>
    \A sub \in DOMAIN SubObjectDefaults :
      IF sub \in DOMAIN routeDefinition.seo
      THEN /\ sub \in DOMAIN descriptor
           /\ \A f \in DOMAIN SubObjectDefaults[sub] :
                f \notin DOMAIN routeDefinition.seo[sub] =>
                  /\ f \in DOMAIN descriptor[sub]
                  /\ descriptor[sub][f] = SubObjectDefaults[sub][f]
      ELSE sub \notin DOMAIN descriptor


\* what the claim gives the robots directive d of a config with indexable:
\* false: the explicit value of the config's robots, else false
ClaimedDirective(d) ==
  IF "robots" \in DOMAIN routeDefinition.seo /\ d \in DOMAIN routeDefinition.seo.robots
  THEN routeDefinition.seo.robots[d] ELSE FALSE

\* the robots rule of the claim for the resolved descriptor
RobotsRule ==
  /\ ("indexable" \in DOMAIN routeDefinition.seo /\ routeDefinition.seo.indexable = FALSE) =>
       /\ "robots" \in DOMAIN descriptor
       /\ descriptor.robots = [index |-> ClaimedDirective("index"),
                               follow |-> ClaimedDirective("follow")]
  /\ DOMAIN routeDefinition.seo \cap {"indexable", "robots"} = {} =>
       "robots" \notin DOMAIN descriptor

\* C20 as stated: in every resolved descriptor, indexable: false sets
\* robots.index and robots.follow to false except for the directives the
\* config's robots gives explicitly, and a config with neither indexable nor
\* robots produces no robots field.
C20_AsStated == SeoResolved => RobotsRule

\* C20: for a config that is not redirect-classified, indexable: false sets
\* robots.index and robots.follow to false, except that each directive given
\* explicitly in the config's robots keeps its explicit value; such a config
\* with neither indexable nor robots produces no robots field. (A
\* redirect-classified config always gets robots {index: false, follow: false}.)
C20_RobotsFromIndexable == (SeoResolved /\ ~RedirectClassified) => RobotsRule

\* C20 witness: indexable: false with robots {index: true} was resolved to
\* robots {index: true, follow: false}
C20_Witness ==
  /\ SeoResolved
  /\ ~RedirectClassified
  /\ "indexable" \in DOMAIN routeDefinition.seo
  /\ routeDefinition.seo.indexable = FALSE
  /\ "robots" \in DOMAIN routeDefinition.seo
  /\ routeDefinition.seo.robots = [index |-> TRUE]
  /\ descriptor.robots = [index |-> TRUE, follow |-> FALSE]


\* ------------------------------------------------------------------------
\* Properties of url
\* ------------------------------------------------------------------------
\* the names of the named segments of the pattern, without the optional marker
UrlNames ==
  { IF IsOptional(seg) THEN OptionalNameOf(seg) ELSE NameOf(seg) :
      seg \in { Segments(urlPattern)[i] : i \in NamedPositions(urlPattern) } }

\* the params give a value to every named segment of the pattern, and to
\* nothing else
ParamsCoverPattern ==
  /\ { urlParams[k].key : k \in 1..Len(urlParams) } = UrlNames
  /\ \A k \in 1..Len(urlParams) : urlParams[k].value # UndefinedValue

\* params[name]
UrlParamOf(name) ==
  urlParams[CHOOSE k \in 1..Len(urlParams) : urlParams[k].key = name].value

\* the pattern with each named segment replaced by exactly its param
SubstitutedPattern ==
  LET segs == Segments(urlPattern)
  IN PathOf([i \in 1..Len(segs) |->
               IF ~IsNamed(segs[i]) THEN segs[i]
               ELSE IF IsOptional(segs[i]) THEN UrlParamOf(OptionalNameOf(segs[i]))
               ELSE UrlParamOf(NameOf(segs[i]))])

\* the params as the object matchPath should return
UrlParamsObject == [name \in UrlNames |-> UrlParamOf(name)]

\* C23: for a pattern P and params giving a value to every named segment,
\* url(params) equals P with each :name segment replaced by exactly
\* params[name], so that matching the generated URL against P returns the
\* same params, also when one parameter name is a prefix of another.
C23_UrlRoundTrip ==
  (generatedUrl # NoUrl /\ ParamsCoverPattern) =>
    /\ generatedUrl = SubstitutedPattern
    /\ matchPath(urlPattern, generatedUrl) = MatchParams(UrlParamsObject)


\* ------------------------------------------------------------------------
\* Properties of the routes object
\* ------------------------------------------------------------------------
\* the written definitions whose SEO descriptor has no redirect, in the
\* order they were registered
WithoutRedirect ==
  SelectSeq(definitions,
            LAMBDA d : "seo" \notin DOMAIN d.definition
                       \/ "redirect" \notin DOMAIN d.definition.seo)

\* C21: the sitemap and the SEO manifest contain an entry for a registered
\* route if and only if its SEO descriptor has no redirect; entries appear
\* in registration order and each non-redirect route appears exactly once.
C21_ViewsListNonRedirectInOrder ==
  /\ sitemap.called =>
       /\ Len(sitemap.entries) = Len(WithoutRedirect)
       /\ \A i \in 1..Len(WithoutRedirect) :
            sitemap.entries[i].url = routeUrl(WithoutRedirect[i].definition.path, << >>)
  /\ seoManifest.called =>
       /\ Len(seoManifest.entries) = Len(WithoutRedirect)
       /\ \A i \in 1..Len(WithoutRedirect) :
            seoManifest.entries[i].route = WithoutRedirect[i].key


DeclaredTwice ==
  \E i, j \in 1..Len(declared) :
    /\ i # j
    /\ IF registry.kind = "createRoutes" THEN declared[i].key = declared[j].key
       ELSE declared[i].path = declared[j].path

\* C24: constructing a registry in which two routes share a name, or
\* registering a second definition for an already registered route, fails
\* at construction time with a fatal error; it is never accepted silently
\* with one definition shadowing the other.
C24_DuplicateIsFatal ==
  (registry # NoRegistry /\ DeclaredTwice) => registry.kind = "failed"


\* ------------------------------------------------------------------------
\* Properties of navigateTo and the AppComponent of contract-page-2
\* ------------------------------------------------------------------------
\* the fetch of a navigateTo(u) settled in the step with a result that
\* redirects to another url
NavigateToRedirected ==
  /\ adapter = "cp2"
  /\ settled' # NoSettled
  /\ settled'.kind = "prefetch"
  /\ settled'.outcome.kind = "returns"
  /\ settled'.outcome.value.body.type = "redirect"
  /\ settled'.outcome.value.body.to # settled'.path

\* C29: after navigateTo(u) is called on page p and the page result for u
\* is a redirect to t (t different from u), the history stack holds p
\* followed by t: u is never a history entry and p stays reachable by
\* back-navigation.
C29_RedirectKeepsPage ==
  [][NavigateToRedirected =>
       LET t == settled'.outcome.value.body.to
       IN /\ history'.at = history.at + 1
          /\ history'.entries = SubSeq(history.entries, 1, history.at) \o <<t>>]_vars


\* C27: in every render of the contract-page-2 AppComponent, the pageContext
\* handed to the view component matched for the current URL was produced by
\* the page function of that same URL; after a URL change the new route's
\* view is never rendered with the pageContext left over from the previous
\* URL.
C27_ViewGetsItsOwnContext ==
  (PageViewShown /\ context.type = "ok") => context.data = ctxOf(url)


\* the fetch of a navigateTo call settled in the step, none is pending after
\* it, and the call pushed its url
LastNavigationPushes ==
  /\ adapter = "cp2"
  /\ settled' # NoSettled
  /\ settled'.kind = "prefetch"
  /\ Len(inflight') < Len(inflight)
  /\ PendingNavigations(inflight') = << >>
  /\ history'.at = history.at + 1

\* the latest navigateTo call pushed its url: before the step, or in it
LatestCallPushes ==
  \/ lastNavigation.state = "pushed"
  \/ lastNavigation.state = "pending" /\ settled'.path = lastNavigation.url

\* C25: if navigateTo(A) is called and then navigateTo(B) is called before
\* A's page-data fetch has completed, then after both fetches complete the
\* current URL and the top history entry are B, whichever fetch resolves
\* first.
C25_LatestNavigationWins ==
  [][(LastNavigationPushes /\ LatestCallPushes) =>
       /\ history'.entries[history'.at] = lastNavigation.url
       /\ history'.at = Len(history'.entries)
       /\ url' = normalizeUrl(lastNavigation.url)]_vars


\* the step runs the effects of the AppComponent for the url that a
\* navigateTo call has just pushed after storing its result, which was not a
\* redirect
EffectAfterNavigation ==
  /\ adapter = "cp2"
  /\ effectDeps' # effectDeps
  /\ settled # NoSettled
  /\ settled.kind = "prefetch"
  /\ settled.outcome.kind = "returns"
  /\ settled.outcome.value.body.type # "redirect"

\* the requests to /api/page the pageContext effect has pending
PageFetches(pending) == SelectSeq(pending, LAMBDA inv : inv.kind = "fetch")

\* C26: each navigateTo(url) whose fetch succeeds with a non-redirect result
\* causes exactly one /api/page request for that navigation: the result is
\* stored in the navigation cache under the key the AppComponent later
\* looks up, the AppComponent consumes that entry (removing it) instead of
\* fetching again, and this holds also when url carries a query string or
\* hash.
C26_OneRequestPerNavigation ==
  [][EffectAfterNavigation =>
       /\ PageFetches(inflight') = PageFetches(inflight)
       /\ \A e \in navigationCache' : e.url # settled.path
       /\ context' = settled.outcome.value.body]_vars


\* the url the SSR endpoint matches for a full page load of href
SsrUrl(href) ==
  LET stripped == removeFirst(href, Base)
  IN IF stripped # << >> THEN stripped ELSE href

\* C28: for every URL, including one that carries a query string, the
\* contract-page-2 server (SSR endpoint and /api/page) and the client
\* AppComponent match the same page definition and extract the same params,
\* so a URL that renders a page after client-side navigation does not yield
\* 404 on a full page load.
C28_ServerAndClientMatchAlike ==
  (adapter = "cp2" /\ url = locationPathname(history)) =>
    LET href == history.entries[history.at]
        client == matchRouteCp2(url)
    IN /\ matchRouteCp2(SsrUrl(href)) = client
       /\ matchRouteCp2(href) = client


\* ------------------------------------------------------------------------
\* Properties of the document head
\* ------------------------------------------------------------------------
\* the SEO descriptor of the result handled last ({} when it has none)
HandledSeo == IF "seo" \in DOMAIN handledResult THEN handledResult.seo ELSE EmptyObject

\* the content of the meta description tag of the document ("" without one)
DescriptionContent ==
  LET k == querySelectorMeta(documentHead.metas, "name", DescriptionName)
  IN IF k = 0 THEN "" ELSE documentHead.metas[k].content

\* C30: after the SPA dispatcher has handled an ok result, the document
\* title and meta description are those of that result's SEO descriptor; a
\* title, description or meta tag written by an earlier navigation does not
\* remain in the document when the new result has no seo or omits that
\* field.
C30_HeadFollowsResult ==
  handledResult.type = "ok" =>
    /\ IF "title" \in DOMAIN HandledSeo THEN documentHead.title = HandledSeo.title
       ELSE documentHead.title \notin HeadTitles
    /\ IF "description" \in DOMAIN HandledSeo
       THEN DescriptionContent = HandledSeo.description
       ELSE DescriptionContent \notin HeadDescriptions
    /\ \A k \in 1..Len(documentHead.metas) :
         \/ documentHead.metas[k].name = DescriptionName
         \/ /\ "meta" \in DOMAIN HandledSeo
            /\ \E e \in 1..Len(HandledSeo.meta) :
                 /\ HandledSeo.meta[e].name = documentHead.metas[k].name
                 /\ HandledSeo.meta[e].content = documentHead.metas[k].content

====
